---- MODULE Spec2Model ----
(***************************************************************************)
(* Orchestration of the alloy screening pipeline: the outer composition    *)
(* loop with resume and checkpointing (run_pipeline.py main), one system   *)
(* run (run_experiment_for_pair, MaterialPipeline.run_pair / run_triplet,  *)
(* run_ternary_experiment), the two relaxation strategies and the two MD   *)
(* strategies.  The structure builder, the relaxer, the hull evaluation,   *)
(* the MD integrator and the MD analyzer are collaborators: each call      *)
(* either returns or raises, chosen by the environment.                    *)
(***************************************************************************)
EXTENDS Integers, Sequences, FiniteSets, TLC

\* ------------------------------------------------------------------ bounds
\* Number of systems the candidate CSV enumerates in auto mode.
MaxSystems == 2
\* Longest mixing-ratio list explored by the outer-loop specification.
MaxRatiosAuto == 2
\* Longest mixing-ratio list explored by the single-system specification.
MaxRatiosManual == 3
\* Largest integer sum of the ternary composition grid
\* (TERNARY_COMPOSITION_TOTAL is the range 3..MaxTernaryTotal).
MaxTernaryTotal == 3

\* ------------------------------------------------------- program constants
\* Atom-count floor below which a structure is replicated before MD.
MD_MIN_ATOMS == 200
\* Replication factor along each axis (atoms * (2, 2, 2)).
MD_REPLICATE == 2
\* SimConfig.RATIO_BATCH_SIZE, scaled down so that several batches occur.
RATIO_BATCH_SIZE == 2
\* Optimizer step caps of the two relaxers.
BATCH_RELAX_STEPS == 200
SEQ_RELAX_STEPS == 100

\* ---------------------------------------------------------------- helpers
RECURSIVE Gcd(_, _)
Gcd(a, b) == IF b = 0 THEN a ELSE Gcd(b, a % b)

Gcd3(a, b, c) == Gcd(Gcd(a, b), c)

Range(s) == {s[i] : i \in DOMAIN s}

EmptyMap == [x \in {} |-> 0]

\* dict[k] = v
Put(d, k, v) == [x \in (DOMAIN d) \cup {k} |-> IF x = k THEN v ELSE d[x]]

\* ---------------------------------------------------------------- builder
\* Atoms in the primitive cell bulk() returns for the element's family in
\* RandomAlloyMixer.LATTICE_DATA (fcc and bcc: 1, hcp: 2).
Family(el) ==
    CASE el \in {"Cu", "Ni", "Al"} -> "fcc"
      [] el \in {"Fe", "Cr"} -> "bcc"
      [] el \in {"Mg", "Co"} -> "hcp"
      [] OTHER -> "fcc"

PrimitiveAtoms(el) == IF Family(el) = "hcp" THEN 2 ELSE 1

\* bulk(..., cubic=True): the conventional cubic cell (fcc 4, bcc 2); hcp has
\* no cubic cell, bulk raises and the mixer falls back to cubic fcc.
CubicAtoms(el) == IF Family(el) = "bcc" THEN 2 ELSE 4

\* make_supercell with the diagonal multiplier.
SupercellAtoms(cellAtoms, supercell_size) ==
    cellAtoms * supercell_size * supercell_size * supercell_size

\* Composition(...).reduced_formula of per-element atom counts: the counts
\* divided by their gcd.  A formula is the tuple of reduced counts, in the
\* order of the system's elements.
ReducedFormula(counts) ==
    LET g == IF Len(counts) = 2 THEN Gcd(counts[1], counts[2])
             ELSE Gcd3(counts[1], counts[2], counts[3])
    IN  [i \in DOMAIN counts |-> counts[i] \div g]

\* len(Composition(formula).elements)
NumElements(formula) == Cardinality({i \in DOMAIN formula : formula[i] > 0})

IsPure(formula) == NumElements(formula) = 1

\* RandomAlloyMixer(base).generate_structure(dopant, ratio, supercell_size):
\* atom counts <<base, dopant>>; ratio is in permille.
generate_structure(base, ratio, supercell_size) ==
    LET total_atoms == SupercellAtoms(PrimitiveAtoms(base), supercell_size)
        num_substitute == (total_atoms * ratio) \div 1000
    IN  IF num_substitute = 0 /\ ratio > 0 THEN <<total_atoms, 0>>
        ELSE <<total_atoms - num_substitute, num_substitute>>

\* SimConfig.get_mixing_ratios(): np.arange(step, 1.0, step), in permille.
RECURSIVE ArangeFrom(_, _)
ArangeFrom(r, step) ==
    IF r >= 1000 THEN <<>> ELSE <<r>> \o ArangeFrom(r + step, step)

get_mixing_ratios(step) == ArangeFrom(step, step)

\* TernaryAlloyMixer.generate_composition_ratios(range(3, maxTotal + 1)).
RECURSIVE CompositionsOfTotal(_, _, _)
CompositionsOfTotal(total, a, b) ==
    IF a > total - 2 THEN <<>>
    ELSE IF b > total - a - 1 THEN CompositionsOfTotal(total, a + 1, 1)
    ELSE <<(<<a, b, total - a - b>>)>> \o CompositionsOfTotal(total, a, b + 1)

RECURSIVE generate_composition_ratios(_, _)
generate_composition_ratios(total, maxTotal) ==
    IF total > maxTotal THEN <<>>
    ELSE CompositionsOfTotal(total, 1, 1)
         \o generate_composition_ratios(total + 1, maxTotal)

\* TernaryAlloyMixer._select_base_element: max over (priority, symbol).
\* The symbols of LATTICE_DATA the model uses; "Zz" stands for a symbol the
\* table does not hold.
LatticeData == {"Al", "Co", "Cr", "Cu", "Fe", "Mg", "Ni"}

CrystalPriority(el) ==
    IF el \notin LatticeData THEN 0
    ELSE CASE Family(el) = "fcc" -> 3 [] Family(el) = "bcc" -> 2 [] OTHER -> 1

\* Alphabetical order of the symbols the model uses.
SymbolRank(el) ==
    CASE el = "Al" -> 1 [] el = "Co" -> 2 [] el = "Cr" -> 3 [] el = "Cu" -> 4
      [] el = "Fe" -> 5 [] el = "Mg" -> 6 [] el = "Ni" -> 7 [] OTHER -> 8

\* priorities.append((priority, elem)) for the elements in argument order.
Priorities(elements) ==
    [i \in DOMAIN elements |-> <<CrystalPriority(elements[i]), elements[i]>>]

\* Faulty variant of the key: the priority alone.
PriorityKey(x) == <<x[1], 0>>

\* key=lambda x: (x[0], x[1])
BaseKey(x) == <<x[1], SymbolRank(x[2])>>

\* Tuple comparison of two keys.
KeyLess(a, b) == a[1] < b[1] \/ (a[1] = b[1] /\ a[2] < b[2])

\* max(priorities, key=...): a left-to-right scan that keeps the first of the
\* items with the largest key.
RECURSIVE MaxFrom(_, _, _)
MaxFrom(xs, i, best) ==
    IF i > Len(xs) THEN best
    ELSE MaxFrom(xs, i + 1,
                 IF KeyLess(BaseKey(best), BaseKey(xs[i])) THEN xs[i] ELSE best)

select_base_element(elements) ==
    MaxFrom(Priorities(elements), 2, Priorities(elements)[1])[2]

\* TernaryAlloyMixer.generate_ternary_structure: atom counts per element.
generate_ternary_structure(elements, ratio_tuple, supercell_size) ==
    LET total_atoms ==
            SupercellAtoms(CubicAtoms(select_base_element(elements)), supercell_size)
        total_parts == ratio_tuple[1] + ratio_tuple[2] + ratio_tuple[3]
        counts == [i \in 1..3 |-> (total_atoms * ratio_tuple[i]) \div total_parts]
        remaining == total_atoms - (counts[1] + counts[2] + counts[3])
    IN  IF remaining > 0 THEN [counts EXCEPT ![1] = @ + remaining] ELSE counts

\* ----------------------------------------------------------- configuration
Variants == {"script", "library", "ternary_script", "ternary_library"}

IsTernary(variant) == variant \in {"ternary_script", "ternary_library"}

\* Sorted element tuples, as load_element_pairs_from_csv returns them.
ElementPairs == << <<"Cu", "Ni">>, <<"Al", "Mg">>, <<"Cr", "Fe">> >>

\* SimConfig.MANUAL_ELEMENT_A / _B / _C.
ManualSystem(variant) ==
    IF IsTernary(variant) THEN <<"Fe", "Cr", "Ni">> ELSE <<"Fe", "Cr">>

\* MIXING_RATIO_STEP values, in permille.
StepChoices == {500, 400, 300, 250, 200}

StepsUpTo(maxRatios) ==
    {s \in StepChoices : Len(get_mixing_ratios(s)) <= maxRatios}

\* f"{element_A}-{element_B}": the system name is the tuple of its symbols.
SystemName(elements) == elements

\* One row of the result table.
Record(system, formula, is_stable) ==
    [system |-> system, formula |-> formula, is_stable |-> is_stable,
     md_performed |-> FALSE]

\* A checkpoint left by an earlier run that completed `elements`.
EarlierRun(elements) ==
    << Record(SystemName(elements), <<1, 0>>, TRUE),
       Record(SystemName(elements), <<0, 1>>, TRUE) >>

\* The value pandas gives a row for a column its file did not have.
NaN == <<>>

\* A result table written without the 'system' column.
OldFormat(elements) ==
    [i \in DOMAIN EarlierRun(elements) |->
        [EarlierRun(elements)[i] EXCEPT !.system = NaN]]

\* ------------------------------------------------------------------- state
VARIABLES
    cfg,                \* SimConfig of the run
    element_pairs,      \* the enumerated list of systems
    fs,                 \* result files on disk: name -> rows, and the set
                        \* of names pd.read_csv cannot parse
    pc,                 \* position of main
    idx,                \* 1-based position of the outer loop
    completed_systems,  \* main: systems found in the checkpoint
    csv_filename,       \* main: the file the run writes
    all_detailed_data,  \* main: accumulated rows
    all_results,        \* main: one summary per executed system
    entries,            \* StabilityAnalyzer.entries of the system in flight
    relaxed_structures, \* reduced formula -> atom count of the relaxed structure
    detailed_data,      \* rows of the system in flight
    stable_formulas,    \* formulas marked stable, in analyzer order
    pure_done,          \* pure elements relaxed so far
    ratio_outcome,      \* collaborator behaviour seen by the mixed-ratio stage
    batch_results,      \* what run_batch returned
    tasks,              \* MD tasks still to run
    md_results,         \* pool.map results still to consume
    md_count,           \* MD runs counted for the system
    result,             \* summary returned by the system run
    calls,              \* builder / relaxer invocations so far
    md_log,             \* structures handed to MDSimulator.run so far
    probe               \* the library function under call, its arguments and result

main_vars == <<completed_systems, csv_filename, all_detailed_data, all_results>>
system_vars == <<entries, relaxed_structures, detailed_data, stable_formulas,
                 pure_done, ratio_outcome, batch_results, tasks, md_results,
                 md_count, result>>
vars == <<cfg, element_pairs, fs, pc, idx, main_vars, system_vars, calls, md_log, probe>>

NoResult == [system |-> <<>>, kind |-> "none"]

\* Locals of a system run before it starts.
FreshSystem ==
    /\ entries = <<>>
    /\ relaxed_structures = EmptyMap
    /\ detailed_data = <<>>
    /\ stable_formulas = <<>>
    /\ pure_done = 0
    /\ ratio_outcome = <<>>
    /\ batch_results = <<>>
    /\ tasks = <<>>
    /\ md_results = <<>>
    /\ md_count = 0
    /\ result = NoResult

\* No library function is under call.
NoProbe == [op |-> "none"]

InitCommon ==
    /\ pc = "start"
    /\ idx = 1
    /\ completed_systems = {}
    /\ csv_filename = "none"
    /\ all_detailed_data = <<>>
    /\ all_results = <<>>
    /\ FreshSystem
    /\ calls = {}
    /\ md_log = <<>>

\* SUPERCELL_SIZE (binary) / TERNARY_SUPERCELL_SIZE (ternary) values explored.
\* With size 1 the binary supercell is too small to take a dopant atom and
\* generate_structure returns the pure base structure.
SupercellSizes(variant) == IF IsTernary(variant) THEN {3, 4} ELSE {1, 4, 6}

\* Resume and the checkpoint file exist only in run_pipeline.py's main.
Checkpoints(c, elements) ==
    LET File(rows, bad) == [old |-> rows, new |-> <<>>, unreadable |-> bad]
    IN  IF c.variant = "script"
        THEN {File(<<>>, {}), File(EarlierRun(elements), {})}
             \cup (IF c.resume
                   THEN {File(OldFormat(elements), {}),
                         File(EarlierRun(elements), {"old"})}
                   ELSE {})
        ELSE {File(<<>>, {})}

Configs(variants, mode, maxRatios) ==
    {c \in [variant : variants, mode : {mode}, step : StepsUpTo(maxRatios),
            supercell_size : {1, 3, 4, 6}, parRatio : BOOLEAN, parMD : BOOLEAN,
            resume : BOOLEAN] :
        /\ c.supercell_size \in SupercellSizes(c.variant)
        /\ c.variant # "script" => ~c.resume
        /\ IsTernary(c.variant) => ~c.parRatio /\ c.step = 500
        /\ c.variant = "ternary_script" => ~c.parMD}

\* Auto mode of run_pipeline.py over the enumerated list.
InitAuto ==
    /\ cfg \in {c \in Configs({"script"}, "auto", MaxRatiosAuto) : c.supercell_size = 4}
    /\ element_pairs = SubSeq(ElementPairs, 1, MaxSystems)
    /\ fs \in Checkpoints(cfg, ElementPairs[1])
    /\ InitCommon
    /\ probe = NoProbe

\* Manual mode: one system, every pipeline variant.
InitManual ==
    /\ cfg \in Configs(Variants, "manual", MaxRatiosManual)
    /\ element_pairs = << ManualSystem(cfg.variant) >>
    /\ fs \in Checkpoints(cfg, ManualSystem(cfg.variant))
    /\ InitCommon
    /\ probe = NoProbe

\* ------------------------------------------------------------- system run
CurrentElements == element_pairs[idx]
CurrentSystem == SystemName(CurrentElements)

NumAtoms(counts) ==
    IF Len(counts) = 2 THEN counts[1] + counts[2]
    ELSE counts[1] + counts[2] + counts[3]

\* Total energy the optimizer reaches from a structure within a step cap: a
\* deterministic function of the structure and of the cap.
Energy(counts, steps) == <<counts, steps>>

\* float('inf')
Inf == <<>>

\* A builder or relaxer invocation, for the log of collaborator calls.
Call(op, stage) == <<op, stage, CurrentSystem>>

\* StabilityAnalyzer.add_result
add_result(ledger, counts, energy) ==
    Append(ledger, [formula |-> ReducedFormula(counts), energy |-> energy])

\* relaxed_structures[formula_reduced] = relaxed.copy()
Keep(structures, counts) == Put(structures, ReducedFormula(counts), NumAtoms(counts))

\* The pure structure of element number i of the system.
PureCounts(variant, elements, i, supercell_size) ==
    IF IsTernary(variant)
    THEN [k \in 1..3 |-> IF k = i
                         THEN SupercellAtoms(CubicAtoms(elements[i]), supercell_size)
                         ELSE 0]
    ELSE [k \in 1..2 |-> IF k = i
                         THEN SupercellAtoms(PrimitiveAtoms(elements[i]), supercell_size)
                         ELSE 0]

\* The mixing requests of a system: ratios (binary) or ratio tuples (ternary).
MixRequests(c) ==
    IF IsTernary(c.variant) THEN generate_composition_ratios(3, MaxTernaryTotal)
    ELSE get_mixing_ratios(c.step)

\* The structure the builder returns for one mixing request.
MixedCounts(c, elements, request) ==
    IF IsTernary(c.variant)
    THEN generate_ternary_structure(elements, request, c.supercell_size)
    ELSE generate_structure(elements[1], request, c.supercell_size)

\* What the builder and the relaxer do on one request.
RatioOutcomes == {"ok", "build_fail", "relax_fail"}

\* Sequential strategy (one try block per ratio) from request i on.
RECURSIVE SequentialFrom(_, _, _, _, _, _)
SequentialFrom(c, elements, outcome, i, ledger, structures) ==
    IF i > Len(MixRequests(c))
    THEN [entries |-> ledger, relaxed_structures |-> structures]
    ELSE LET counts == MixedCounts(c, elements, MixRequests(c)[i])
         IN  IF outcome[i] = "ok"
             THEN SequentialFrom(c, elements, outcome, i + 1,
                      add_result(ledger, counts, Energy(counts, SEQ_RELAX_STEPS)),
                      Keep(structures, counts))
             ELSE SequentialFrom(c, elements, outcome, i + 1, ledger, structures)

run_sequential_ratio_relaxation(c, elements, outcome, ledger, structures) ==
    LET r == SequentialFrom(c, elements, outcome, 1, ledger, structures)
    IN  [entries |-> r.entries, relaxed_structures |-> r.relaxed_structures,
         raised |-> FALSE, batch_results |-> <<>>,
         built |-> Len(MixRequests(c)) > 0,
         relaxed |-> \E i \in DOMAIN outcome : outcome[i] # "build_fail"]

\* Faulty variant of the batch loop: the first failing member ends the batch.
RECURSIVE RelaxBatchAborting(_, _, _, _)
RelaxBatchAborting(atoms_list, failing, first, last) ==
    IF first > last \/ first \in failing THEN <<>>
    ELSE << <<atoms_list[first], <<atoms_list[first], BATCH_RELAX_STEPS>> >> >>
         \o RelaxBatchAborting(atoms_list, failing, first + 1, last)

\* BatchStructureRelaxer.run_batch: one batch, members first..last.
RECURSIVE RelaxBatch(_, _, _, _)
RelaxBatch(atoms_list, failing, first, last) ==
    IF first > last THEN <<>>
    ELSE << (IF first \in failing
             THEN <<atoms_list[first], Inf>>
             ELSE <<atoms_list[first], Energy(atoms_list[first], BATCH_RELAX_STEPS)>>) >>
         \o RelaxBatch(atoms_list, failing, first + 1, last)

Min(a, b) == IF a < b THEN a ELSE b

RECURSIVE RunBatchesFrom(_, _, _, _)
RunBatchesFrom(atoms_list, failing, batch_size, batch_idx) ==
    LET num_batches == (Len(atoms_list) + batch_size - 1) \div batch_size
        start_idx == batch_idx * batch_size
        end_idx == Min((batch_idx + 1) * batch_size, Len(atoms_list))
    IN  IF batch_idx >= num_batches THEN <<>>
        ELSE RelaxBatch(atoms_list, failing, start_idx + 1, end_idx)
             \o RunBatchesFrom(atoms_list, failing, batch_size, batch_idx + 1)

\* run_batch(atoms_list): failing is the set of members whose relaxation raises.
run_batch(atoms_list, failing, batch_size) ==
    RunBatchesFrom(atoms_list, failing, batch_size, 0)

\* Registration of the batch results with energy != inf, from result i on.
RECURSIVE RegisterFrom(_, _, _, _)
RegisterFrom(results, i, ledger, structures) ==
    IF i > Len(results)
    THEN [entries |-> ledger, relaxed_structures |-> structures]
    ELSE IF results[i][2] # Inf
    THEN RegisterFrom(results, i + 1,
             add_result(ledger, results[i][1], results[i][2]),
             Keep(structures, results[i][1]))
    ELSE RegisterFrom(results, i + 1, ledger, structures)

\* Batched strategy: every structure is built first, outside any try block.
run_parallel_ratio_relaxation(c, elements, outcome, ledger, structures) ==
    LET requests == MixRequests(c)
        atoms_list == [i \in DOMAIN requests |-> MixedCounts(c, elements, requests[i])]
        failing == {i \in DOMAIN outcome : outcome[i] = "relax_fail"}
        results == run_batch(atoms_list, failing, RATIO_BATCH_SIZE)
        r == RegisterFrom(results, 1, ledger, structures)
    IN  IF \E i \in DOMAIN outcome : outcome[i] = "build_fail"
        THEN [entries |-> ledger, relaxed_structures |-> structures,
              raised |-> TRUE, batch_results |-> <<>>,
              built |-> TRUE, relaxed |-> FALSE]
        ELSE [entries |-> r.entries, relaxed_structures |-> r.relaxed_structures,
              raised |-> FALSE, batch_results |-> results,
              built |-> TRUE, relaxed |-> TRUE]

\* if SimConfig.PARALLEL_RATIO_CALCULATION and len(mixing_ratios) > 1
UsesBatches(c) ==
    ~IsTernary(c.variant) /\ c.parRatio /\ Len(MixRequests(c)) > 1

ratio_relaxation(c, elements, outcome, ledger, structures) ==
    IF UsesBatches(c)
    THEN run_parallel_ratio_relaxation(c, elements, outcome, ledger, structures)
    ELSE run_sequential_ratio_relaxation(c, elements, outcome, ledger, structures)

\* ------------------------------------------------------------------- main
\* load_completed_systems: the distinct values of the 'system' column; the
\* empty set when the file cannot be read or has no such column.
load_completed_systems(files, name) ==
    LET rows == files[name]
    IN  IF name \in files.unreadable THEN {}
        ELSE IF \A i \in DOMAIN rows : rows[i].system = NaN THEN {}
        ELSE {rows[i].system : i \in DOMAIN rows}

\* Faulty variant of the resume load: the rows of the file are not kept.
load_no_data(files, name) == <<>>

\* load_existing_data: the rows of the file, whatever its columns; nothing
\* when the file cannot be read.
load_existing_data(files, name) ==
    IF name \in files.unreadable THEN <<>> ELSE files[name]

\* Faulty variant of the checkpoint write: the file is left as it was.
save_nothing(files, name, rows) == files

\* save_intermediate_csv: overwrite the file, unless there is nothing to save.
save_intermediate_csv(files, name, rows) ==
    IF rows = <<>> THEN files
    ELSE [files EXCEPT ![name] = rows, !.unreadable = @ \ {name}]

\* Faulty variant of the mode test: every mode is run.
AnyMode(mode) == TRUE

\* PIPELINE_MODE == "auto" / "manual": the modes main has a branch for.
KnownMode(mode) == mode \in {"auto", "manual"}

\* main up to the outer loop: resume check and choice of the output file.
\* RESUME_CSV_PATH or find_latest_result_csv() names file "old" when it exists.
Startup ==
    /\ pc = "start"
    /\ KnownMode(cfg.mode)
    /\ LET found == cfg.variant = "script" /\ cfg.resume /\ fs.old # <<>>
           completed == IF found THEN load_completed_systems(fs, "old") ELSE {}
           loaded == IF found THEN load_existing_data(fs, "old") ELSE <<>>
       IN  /\ completed_systems' = completed
           /\ all_detailed_data' = loaded
           /\ csv_filename' = IF found /\ completed # {} THEN "old" ELSE "new"
    /\ pc' = "loop"
    /\ UNCHANGED <<probe, cfg, element_pairs, fs, idx, all_results, system_vars, calls, md_log>>

\* Faulty variant of the resume test: nothing is ever skipped.
SkipsNothing(system, completed) == FALSE

\* if system_name in completed_systems: continue
Skips(system, completed) == system \in completed

\* Outer loop: a system found in the checkpoint is skipped.
SkipSystem ==
    /\ pc = "loop"
    /\ idx <= Len(element_pairs)
    /\ Skips(CurrentSystem, completed_systems)
    /\ idx' = idx + 1
    /\ UNCHANGED <<probe, cfg, element_pairs, fs, pc, main_vars, system_vars, calls, md_log>>

\* Outer loop: the system run is entered.  The ternary script constructs its
\* analyzer with the keyword `threshold`; stability.py's constructor takes
\* `stability_threshold` and raises TypeError, while the analyzer the script
\* is written against (keyword `threshold`, DataFrame results) accepts it.
\* The package file that binds the name is not part of the sources, so both
\* outcomes are kept.
StartSystem ==
    /\ pc = "loop"
    /\ idx <= Len(element_pairs)
    /\ ~Skips(CurrentSystem, completed_systems)
    /\ \/ pc' = "pure"
       \/ cfg.variant = "ternary_script" /\ pc' = "crashed"
    /\ UNCHANGED <<probe, cfg, element_pairs, fs, idx, main_vars, system_vars, calls, md_log>>

\* Faulty variant of the error return: the abandoned system reports success.
SuccessResult == [system |-> CurrentSystem, kind |-> "ok"]

\* return {"system": ..., "error": str(e)}, []
ErrorResult == [system |-> CurrentSystem, kind |-> "error"]

\* Faulty variant of the stage order: the mixed-ratio stage is left out.
AfterPureUnmixed(done, n) == IF done = n THEN "analyze" ELSE "pure"

\* The stage after a pure-element relaxation: the next pure element, then
\* the mixed-ratio stage.
AfterPure(done, n) == IF done = n THEN "ratios" ELSE "pure"

\* Pure-element reference: build, relax, register.  Any exception abandons the
\* system with an error summary and no rows.
PureRelax ==
    /\ pc = "pure"
    /\ \E outcome \in RatioOutcomes :
         LET counts == PureCounts(cfg.variant, CurrentElements, pure_done + 1,
                                  cfg.supercell_size)
         IN  /\ calls' = calls \cup {Call("build", "pure")}
                               \cup (IF outcome = "build_fail" THEN {}
                                     ELSE {Call("relax", "pure")})
             /\ IF outcome = "ok"
                THEN /\ entries' = add_result(entries, counts,
                                              Energy(counts, SEQ_RELAX_STEPS))
                     /\ relaxed_structures' = Keep(relaxed_structures, counts)
                     /\ detailed_data' =
                          IF cfg.variant = "ternary_script"
                          THEN Append(detailed_data,
                                      Record(CurrentSystem, ReducedFormula(counts), FALSE))
                          ELSE detailed_data
                     /\ pure_done' = pure_done + 1
                     /\ pc' = AfterPure(pure_done + 1, Len(CurrentElements))
                     /\ UNCHANGED result
                ELSE /\ result' = ErrorResult
                     /\ detailed_data' = <<>>
                     /\ pc' = "ret"
                     /\ UNCHANGED <<entries, relaxed_structures, pure_done>>
    /\ UNCHANGED <<probe, cfg, element_pairs, fs, idx, main_vars, stable_formulas,
                   ratio_outcome, batch_results, tasks, md_results, md_count, md_log>>

\* Rows the ternary script appends while relaxing the mixed compositions.
RECURSIVE TernaryRows(_, _, _, _)
TernaryRows(c, elements, outcome, i) ==
    IF i > Len(MixRequests(c)) THEN <<>>
    ELSE (IF outcome[i] = "ok"
          THEN << Record(SystemName(elements),
                         ReducedFormula(MixedCounts(c, elements, MixRequests(c)[i])),
                         FALSE) >>
          ELSE <<>>)
         \o TernaryRows(c, elements, outcome, i + 1)

\* Mixed-ratio stage, batched or sequential.
RatioRelaxation ==
    /\ pc = "ratios"
    /\ \E outcome \in [DOMAIN MixRequests(cfg) -> RatioOutcomes] :
         LET r == ratio_relaxation(cfg, CurrentElements, outcome,
                                   entries, relaxed_structures)
         IN  /\ ratio_outcome' = outcome
             /\ entries' = r.entries
             /\ relaxed_structures' = r.relaxed_structures
             /\ batch_results' = r.batch_results
             /\ calls' = calls \cup (IF r.built THEN {Call("build", "mixed")} ELSE {})
                               \cup (IF r.relaxed THEN {Call("relax", "mixed")} ELSE {})
             /\ detailed_data' =
                  IF cfg.variant = "ternary_script"
                  THEN detailed_data \o TernaryRows(cfg, CurrentElements, outcome, 1)
                  ELSE detailed_data
             /\ pc' = IF r.raised THEN "crashed" ELSE "analyze"
    /\ UNCHANGED <<probe, cfg, element_pairs, fs, idx, main_vars, stable_formulas, pure_done,
                   tasks, md_results, md_count, result, md_log>>

\* ------------------------------------------------------- stability filter
\* Verdicts PhaseDiagram can give: is_stable is e_above_hull <= threshold with
\* a threshold >= 0.  Entries with the same composition and energy get the
\* same verdict, and the lowest entry of a pure element is a hull vertex
\* (e_above_hull = 0), so one entry of each pure element is stable; every
\* other entry may fall either way.
HullVerdicts(ledger) ==
    {v \in [DOMAIN ledger -> BOOLEAN] :
        \A i \in DOMAIN ledger :
            /\ \A j \in DOMAIN ledger : ledger[j] = ledger[i] => v[j] = v[i]
            /\ IsPure(ledger[i].formula) =>
                 \E j \in DOMAIN ledger :
                     ledger[j].formula = ledger[i].formula /\ v[j]}

\* StabilityAnalyzer.analyze: one result per entry, in registration order.
analyze(ledger, verdict) ==
    [i \in DOMAIN ledger |->
        [formula |-> ledger[i].formula, is_stable |-> verdict[i]]]

\* stable_formulas: the formulas of the stable results, in order.
RECURSIVE StableFrom(_, _)
StableFrom(results, i) ==
    IF i > Len(results) THEN <<>>
    ELSE (IF results[i].is_stable THEN <<results[i].formula>> ELSE <<>>)
         \o StableFrom(results, i + 1)

\* One row per result whose formula has a relaxed structure.
RECURSIVE RowsFrom(_, _, _, _)
RowsFrom(system, results, structures, i) ==
    IF i > Len(results) THEN <<>>
    ELSE (IF results[i].formula \in DOMAIN structures
          THEN << Record(system, results[i].formula, results[i].is_stable) >>
          ELSE <<>>)
         \o RowsFrom(system, results, structures, i + 1)

\* Ternary script: the verdicts are merged into the rows written earlier.
RECURSIVE MergeFrom(_, _, _)
MergeFrom(rows, results, i) ==
    IF i > Len(results) THEN rows
    ELSE MergeFrom([k \in DOMAIN rows |->
                       IF rows[k].formula = results[i].formula
                       THEN [rows[k] EXCEPT !.is_stable = results[i].is_stable]
                       ELSE rows[k]],
                   results, i + 1)

process_stability_results(variant, system, results, structures, rows) ==
    IF variant = "ternary_script" THEN MergeFrom(rows, results, 1)
    ELSE rows \o RowsFrom(system, results, structures, 1)

Summary(kind, total, stable, md) ==
    [system |-> CurrentSystem, kind |-> kind, total_structures |-> total,
     stable_count |-> stable, md_count |-> md]

\* Phase 2: the hull evaluation (not inside any try block) and the rows.
Analyze ==
    /\ pc = "analyze"
    /\ \/ /\ pc' = "crashed"
          /\ UNCHANGED <<stable_formulas, detailed_data, result>>
       \/ \E verdict \in HullVerdicts(entries) :
            LET results == analyze(entries, verdict)
            IN  IF results = <<>>
                THEN /\ result' = Summary("empty", 0, 0, 0)
                     /\ detailed_data' = <<>>
                     /\ pc' = "ret"
                     /\ UNCHANGED stable_formulas
                ELSE /\ stable_formulas' = StableFrom(results, 1)
                     /\ detailed_data' =
                          process_stability_results(cfg.variant, CurrentSystem,
                              results, relaxed_structures, detailed_data)
                     /\ pc' = "md"
                     /\ UNCHANGED result
    /\ UNCHANGED <<probe, cfg, element_pairs, fs, idx, main_vars, entries, relaxed_structures,
                   pure_done, ratio_outcome, batch_results, tasks, md_results,
                   md_count, calls, md_log>>

\* --------------------------------------------------------------------- MD
\* if len(atoms) < 200: atoms = atoms * (2, 2, 2)
Replicate(atoms) ==
    IF atoms < MD_MIN_ATOMS
    THEN atoms * MD_REPLICATE * MD_REPLICATE * MD_REPLICATE
    ELSE atoms

\* The structure a pipeline variant hands to MD for a relaxed structure.
Preprocess(variant, atoms) ==
    IF variant = "ternary_script" THEN atoms ELSE Replicate(atoms)

\* Whether the variant dispatches a stable formula to MD.
Dispatches(variant, formula) ==
    IF variant \in {"library", "ternary_library"} THEN ~IsPure(formula) ELSE TRUE

\* calc, the energy-evaluation handle main loads once and hands to the
\* relaxers and to the sequential MDSimulator.
ParentCalc == "parent"

\* A structure with no calculator attached.
NoCalc == "none"

\* atoms.copy(): the structure put into a task tuple carries no calculator;
\* the other items of the tuple are a string and numbers.
TaskCalc(parent) == NoCalc

\* Faulty variant: the worker simulates with the handle of the parent.
ParentHandle(task) == ParentCalc

\* calc = get_calculator(device=device) inside md_worker: a handle loaded in
\* the worker process, for this task.
WorkerCalc(task) == <<"worker", task.formula>>

\* The MD task list of a system, in the order of stable_formulas.
RECURSIVE TasksFrom(_, _, _, _)
TasksFrom(variant, stable, structures, i) ==
    IF i > Len(stable) THEN <<>>
    ELSE (IF Dispatches(variant, stable[i]) /\ stable[i] \in DOMAIN structures
          THEN << [formula |-> stable[i],
                   relaxed_atoms |-> structures[stable[i]],
                   atoms |-> Preprocess(variant, structures[stable[i]]),
                   calc |-> TaskCalc(ParentCalc)] >>
          ELSE <<>>)
         \o TasksFrom(variant, stable, structures, i + 1)

\* Phase 3 entry: the task list and the MD strategy.  mp.Pool(processes=0)
\* raises in the script when no task was prepared for a stable formula.
PrepareMD ==
    /\ pc = "md"
    /\ LET prepared == TasksFrom(cfg.variant, stable_formulas, relaxed_structures, 1)
       IN  /\ tasks' = prepared
           /\ pc' = IF prepared = <<>>
                    THEN (IF cfg.variant = "script" /\ cfg.parMD /\ stable_formulas # <<>>
                          THEN "crashed" ELSE "return")
                    ELSE (IF cfg.parMD THEN "md_pool" ELSE "md_seq")
    /\ UNCHANGED <<probe, cfg, element_pairs, fs, idx, main_vars, entries, relaxed_structures,
                   detailed_data, stable_formulas, pure_done, ratio_outcome,
                   batch_results, md_results, md_count, result, calls, md_log>>

\* The first row of the formula gets its MD fields (the loop breaks there).
RECURSIVE UpdateFirstFrom(_, _, _)
UpdateFirstFrom(rows, formula, i) ==
    IF i > Len(rows) THEN rows
    ELSE IF rows[i].formula = formula
    THEN [rows EXCEPT ![i].md_performed = TRUE]
    ELSE UpdateFirstFrom(rows, formula, i + 1)

\* The ternary script writes the MD fields into every row of the formula.
UpdateAll(rows, formula) ==
    [k \in DOMAIN rows |->
        IF rows[k].formula = formula
        THEN [rows[k] EXCEPT !.md_performed = TRUE] ELSE rows[k]]

\* What the MD run and the trajectory analysis do on one task.
MDOutcomes == {"ok", "run_fail", "analysis_error"}

\* Faulty variant of the row update: every row of the system is marked.
analyze_md_result_all(variant, rows, formula, outcome) ==
    [k \in DOMAIN rows |-> [rows[k] EXCEPT !.md_performed = TRUE]]

\* Rows after the analysis of one trajectory.
analyze_md_result(variant, rows, formula, outcome) ==
    IF variant = "ternary_script" THEN UpdateAll(rows, formula)
    ELSE IF outcome = "ok" THEN UpdateFirstFrom(rows, formula, 1)
    ELSE rows

\* md_count after one trajectory was produced and analyzed.
CountMD(variant, count, outcome) ==
    CASE variant = "script" -> IF outcome = "ok" THEN count + 1 ELSE count
      [] variant = "ternary_script" -> count
      [] OTHER -> count + 1

\* One MD invocation: the structure handed to MDSimulator.run and what became
\* of the run.
Invocation(task, outcome) ==
    [formula |-> task.formula, relaxed_atoms |-> task.relaxed_atoms,
     atoms |-> task.atoms, outcome |-> outcome]

\* Sequential MD: one task per step, inside its own try block.
MDSequentialStep ==
    /\ pc = "md_seq"
    /\ tasks # <<>>
    /\ \E outcome \in MDOutcomes :
         /\ md_log' = Append(md_log, Invocation(Head(tasks), outcome))
         /\ IF outcome = "run_fail"
            THEN UNCHANGED <<detailed_data, md_count>>
            ELSE /\ detailed_data' = analyze_md_result(cfg.variant, detailed_data,
                                                       Head(tasks).formula, outcome)
                 /\ md_count' = CountMD(cfg.variant, md_count, outcome)
    /\ tasks' = Tail(tasks)
    /\ pc' = IF Tail(tasks) = <<>> THEN "return" ELSE "md_seq"
    /\ UNCHANGED <<probe, cfg, element_pairs, fs, idx, main_vars, entries, relaxed_structures,
                   stable_formulas, pure_done, ratio_outcome, batch_results,
                   md_results, result, calls>>

\* md_worker: a worker catches its own failure and reports it in its result;
\* otherwise it returns the trajectory, which the analyzer can read or not.
md_worker(task, outcome) ==
    [formula |-> task.formula, error |-> outcome = "run_fail",
     analyzable |-> outcome = "ok", done |-> TRUE, calc |-> WorkerCalc(task)]

\* The slot of a task whose worker has not returned yet.
Running(task) ==
    [formula |-> task.formula, error |-> FALSE, analyzable |-> FALSE, done |-> FALSE,
     calc |-> NoCalc]

\* What became of the run, read from the worker's result.
OutcomeOf(res) ==
    IF res.error THEN "run_fail"
    ELSE IF res.analyzable THEN "ok" ELSE "analysis_error"

\* Faulty variant: a worker saves the result table itself.
md_worker_saves(files, task) ==
    [files EXCEPT !.new = Append(@, Record(NaN, task.formula, TRUE))]

\* Files a worker process writes besides its trajectory: none.
md_worker_files(files, task) == files

\* Faulty variant: the map returns with the first finished worker.
AnyFinished(results) == \E i \in DOMAIN results : results[i].done

\* pool.map returns once every worker has returned.
AllFinished(results) == \A i \in DOMAIN results : results[i].done

\* Multi-process MD: pool.map hands every task to the pool and blocks.
MDPoolMap ==
    /\ pc = "md_pool"
    /\ md_results' = [i \in DOMAIN tasks |-> Running(tasks[i])]
    /\ pc' = "md_wait"
    /\ UNCHANGED <<probe, cfg, element_pairs, fs, idx, main_vars, entries, relaxed_structures,
                   detailed_data, stable_formulas, pure_done, ratio_outcome,
                   batch_results, tasks, md_count, result, calls, md_log>>

\* A worker process finishes its task, in any order among the workers.
MDWorkerFinish ==
    /\ pc = "md_wait"
    /\ \E i \in DOMAIN md_results, outcome \in MDOutcomes :
         /\ ~md_results[i].done
         /\ md_results' = [md_results EXCEPT ![i] = md_worker(tasks[i], outcome)]
         /\ fs' = md_worker_files(fs, tasks[i])
    /\ UNCHANGED <<probe, cfg, element_pairs, pc, idx, main_vars, entries, relaxed_structures,
                   detailed_data, stable_formulas, pure_done, ratio_outcome,
                   batch_results, tasks, md_count, result, calls, md_log>>

\* pool.map returns the results in task order and the pool is closed.
MDPoolJoin ==
    /\ pc = "md_wait"
    /\ AllFinished(md_results)
    /\ md_log' = md_log \o [i \in DOMAIN tasks |->
                               Invocation(tasks[i], OutcomeOf(md_results[i]))]
    /\ tasks' = <<>>
    /\ pc' = "md_consume"
    /\ UNCHANGED <<probe, cfg, element_pairs, fs, idx, main_vars, entries, relaxed_structures,
                   detailed_data, stable_formulas, pure_done, ratio_outcome,
                   batch_results, md_results, md_count, result, calls>>

\* Multi-process MD: the results are consumed in task order.
MDConsume ==
    /\ pc = "md_consume"
    /\ md_results # <<>>
    /\ IF Head(md_results).error
       THEN UNCHANGED <<detailed_data, md_count>>
       ELSE LET outcome == IF Head(md_results).analyzable
                           THEN "ok" ELSE "analysis_error"
            IN  /\ detailed_data' = analyze_md_result(cfg.variant, detailed_data,
                                                      Head(md_results).formula, outcome)
                /\ md_count' = CountMD(cfg.variant, md_count, outcome)
    /\ md_results' = Tail(md_results)
    /\ pc' = IF Tail(md_results) = <<>> THEN "return" ELSE "md_consume"
    /\ UNCHANGED <<probe, cfg, element_pairs, fs, idx, main_vars, entries, relaxed_structures,
                   stable_formulas, pure_done, ratio_outcome, batch_results, tasks,
                   result, calls, md_log>>

\* The system run returns its summary (and, in the ternary script, writes its
\* own detail file first).
ReturnSystem ==
    /\ pc = "return"
    /\ result' = Summary("ok", Cardinality(DOMAIN relaxed_structures),
                         Len(stable_formulas), md_count)
    /\ fs' = IF cfg.variant = "ternary_script"
             THEN save_intermediate_csv(fs, "new", detailed_data) ELSE fs
    /\ pc' = "ret"
    /\ UNCHANGED <<probe, cfg, element_pairs, idx, main_vars, entries, relaxed_structures,
                   detailed_data, stable_formulas, pure_done, ratio_outcome,
                   batch_results, tasks, md_results, md_count, calls, md_log>>

\* Locals of the system run are gone once main has taken the return value.
ResetSystem ==
    /\ entries' = <<>>
    /\ relaxed_structures' = EmptyMap
    /\ detailed_data' = <<>>
    /\ stable_formulas' = <<>>
    /\ pure_done' = 0
    /\ ratio_outcome' = <<>>
    /\ batch_results' = <<>>
    /\ tasks' = <<>>
    /\ md_results' = <<>>
    /\ md_count' = 0
    /\ result' = NoResult
    /\ md_log' = <<>>

\* Rows the caller of the system run receives.
Returned(variant, rows) == IF variant = "ternary_script" THEN <<>> ELSE rows

\* main after the system run: append, extend, report, save.  The report reads
\* result['total_structures'] of every summary without an error.
FinishSystem ==
    /\ pc = "ret"
    /\ all_results' = Append(all_results, result)
    /\ all_detailed_data' = all_detailed_data \o Returned(cfg.variant, detailed_data)
    /\ IF cfg.variant = "script" /\ result.kind = "empty"
       THEN /\ pc' = "crashed"
            /\ UNCHANGED <<fs, idx, system_vars, md_log>>
       ELSE /\ fs' = IF cfg.variant = "script"
                     THEN save_intermediate_csv(fs, csv_filename, all_detailed_data')
                     ELSE fs
            /\ idx' = idx + 1
            /\ pc' = "loop"
            /\ ResetSystem
    /\ UNCHANGED <<probe, cfg, element_pairs, completed_systems, csv_filename, calls>>

\* main after the loop: the final report and one more save.
FinalReport ==
    /\ pc = "loop"
    /\ idx > Len(element_pairs)
    /\ fs' = IF cfg.variant = "script"
             THEN save_intermediate_csv(fs, csv_filename, all_detailed_data)
             ELSE fs
    /\ pc' = "done"
    /\ UNCHANGED <<probe, cfg, element_pairs, idx, main_vars, system_vars, calls, md_log>>

Next ==
    \/ Startup
    \/ SkipSystem
    \/ StartSystem
    \/ PureRelax
    \/ RatioRelaxation
    \/ Analyze
    \/ PrepareMD
    \/ MDSequentialStep
    \/ MDPoolMap
    \/ MDWorkerFinish
    \/ MDPoolJoin
    \/ MDConsume
    \/ ReturnSystem
    \/ FinishSystem
    \/ FinalReport

\* The outer loop of run_pipeline.py in auto mode.
Spec == InitAuto /\ [][Next]_vars

\* One system in manual mode, every pipeline variant.
SpecSystem == InitManual /\ [][Next]_vars

\* ---------------------------------------------------------------------
\* The two scripts started with any PIPELINE_MODE.
UnknownModes == {"batch"}

\* The scripts in manual mode, and with a mode main has no branch for, where
\* element_pairs is never assigned.
InitModes ==
    /\ cfg \in UNION {Configs({"script", "ternary_script"}, m, MaxRatiosManual) :
                         m \in {"manual"} \cup UnknownModes}
    /\ element_pairs = IF KnownMode(cfg.mode)
                       THEN << ManualSystem(cfg.variant) >>
                       ELSE <<>>
    /\ fs \in Checkpoints(cfg, ManualSystem(cfg.variant))
    /\ InitCommon
    /\ probe = NoProbe

\* main's else branch: the message is printed and the loop is never entered.
\* run_pipeline.py has read the checkpoint by then and returns; the ternary
\* script falls through to its closing banner.
RejectMode ==
    /\ pc = "start"
    /\ ~KnownMode(cfg.mode)
    /\ LET found == cfg.variant = "script" /\ cfg.resume /\ fs.old # <<>>
           completed == IF found THEN load_completed_systems(fs, "old") ELSE {}
           loaded == IF found THEN load_existing_data(fs, "old") ELSE <<>>
       IN  /\ completed_systems' = completed
           /\ all_detailed_data' = loaded
           /\ csv_filename' = IF found /\ completed # {} THEN "old" ELSE "new"
    /\ pc' = "ended"
    /\ UNCHANGED <<probe, cfg, element_pairs, fs, idx, all_results, system_vars, calls, md_log>>

NextModes == Next \/ RejectMode

SpecModes == InitModes /\ [][NextModes]_vars

\* ---------------------------------------------------------------------
\* run_pipeline.py with PARALLEL_SYSTEM_CALCULATION and NUM_GPUS set.  main
\* tests them once and takes one of two loops with the same body, which the
\* loop actions model; nothing else reads the two settings.
InitParallelSystems ==
    /\ \E c \in {k \in Configs({"script"}, "auto", MaxRatiosAuto) :
                    k.supercell_size = 4 /\ k.step = 500},
          p \in BOOLEAN, g \in {1, 2} :
         cfg = [variant |-> c.variant, mode |-> c.mode, step |-> c.step,
                supercell_size |-> c.supercell_size, parRatio |-> c.parRatio,
                parMD |-> c.parMD, resume |-> c.resume,
                parSystem |-> p, num_gpus |-> g]
    /\ element_pairs = SubSeq(ElementPairs, 1, MaxSystems)
    /\ fs \in Checkpoints(cfg, ElementPairs[1])
    /\ InitCommon
    /\ probe = NoProbe

SpecParallelSystems == InitParallelSystems /\ [][Next]_vars

\* Manual mode on a system whose base element is hcp (a two-atom primitive
\* cell) with SUPERCELL_SIZE = 1 and MIXING_RATIO_STEP = 0.25: the ratios
\* 0.5 and 0.75 both substitute one atom of the two.
HcpSystem == <<"Co", "Ni">>

InitHcpBase ==
    /\ cfg \in {c \in Configs({"script", "library"}, "manual", MaxRatiosManual) :
                   c.supercell_size = 1 /\ c.step = 250}
    /\ element_pairs = << HcpSystem >>
    /\ fs \in Checkpoints(cfg, HcpSystem)
    /\ InitCommon
    /\ probe = NoProbe

SpecHcpBase == InitHcpBase /\ [][Next]_vars

\* -------------------------------------------------------------- properties
Systems(results) == {results[i].system : i \in DOMAIN results}

\* C1: in resume mode no builder or relaxer call is ever made for a system
\* whose name was found in the 'system' column of the loaded checkpoint; such
\* a system leaves the outer loop before any structure work.
C1_ResumeSkipsCompleted ==
    /\ \A c \in calls : c[3] \notin completed_systems
    /\ \A s \in Systems(all_results) : s \notin completed_systems
    /\ pc \notin {"start", "loop", "done"} => CurrentSystem \notin completed_systems

\* A resumed run that skipped its first system and worked on another one.
C1_Witness ==
    /\ pc = "done"
    /\ cfg.resume
    /\ element_pairs[1] \in completed_systems
    /\ \E c \in calls : c[3] = element_pairs[2]

\* C2: once a system has finished in the outer loop, the file main writes
\* holds every record accumulated so far, and until then the accumulated
\* records are those read from the checkpoint, so the records not yet
\* durable are those of the one system in flight.
C2_SnapshotHoldsAll ==
    /\ all_results # <<>> => fs[csv_filename] = all_detailed_data
    /\ (pc # "start" /\ all_results = <<>>) => all_detailed_data \in {<<>>, fs.old}

\* Two systems finished, the first with a captured error, the second with
\* records, and the file holds them.
C2_Witness ==
    /\ pc = "loop"
    /\ Len(all_results) = 2
    /\ all_results[1].kind = "error"
    /\ all_results[2].kind = "ok"
    /\ all_detailed_data # <<>>
    /\ fs[csv_filename] = all_detailed_data

\* C3: no failure raised while a system is processed leaves the outer loop.
C3_NoFailureEscapes == pc # "crashed"

\* The pure stage gave up on the system in flight.
AbandonedInPure == pc = "ret" /\ pure_done < Len(CurrentElements)

\* No mixed-ratio structure was built or relaxed for a system.
NoMixedWork(system) ==
    /\ <<"build", "mixed", system>> \notin calls
    /\ <<"relax", "mixed", system>> \notin calls

\* One error summary for the system and no row of it.
SingleErrorRecord(i) ==
    /\ \A j \in DOMAIN all_results :
         all_results[j].system = all_results[i].system => j = i
    /\ \A k \in DOMAIN all_detailed_data :
         all_detailed_data[k].system # all_results[i].system
    /\ NoMixedWork(all_results[i].system)

\* C4 as stated: a failing pure-element relaxation gives one error record, an
\* empty ledger, no mixed-ratio work and an MD count of 0.
C4_ZeroLedgerEntries ==
    /\ AbandonedInPure =>
         /\ result.kind = "error"
         /\ entries = <<>>
         /\ NoMixedWork(CurrentSystem)
         /\ md_count = 0 /\ md_log = <<>>
    /\ \A i \in DOMAIN all_results :
         all_results[i].kind = "error" => SingleErrorRecord(i)

\* C4, amended: a failing pure-element relaxation gives one error summary and
\* no row; the ledger holds only the pure entries registered before the
\* failure and is never evaluated; no mixed-ratio structure is built or
\* relaxed and no MD is run or counted.
C4_PureFailureAbandons ==
    /\ AbandonedInPure =>
         /\ result.kind = "error"
         /\ result.system = CurrentSystem
         /\ detailed_data = <<>>
         /\ Len(entries) = pure_done
         /\ \A i \in DOMAIN entries : IsPure(entries[i].formula)
         /\ stable_formulas = <<>>
         /\ NoMixedWork(CurrentSystem)
         /\ md_count = 0 /\ md_log = <<>>
    /\ \A i \in DOMAIN all_results :
         all_results[i].kind = "error" => SingleErrorRecord(i)

\* The second pure element failed after the first one was registered.
C4_Witness ==
    /\ AbandonedInPure
    /\ pure_done = 1
    /\ Len(entries) = 1
    /\ result.kind = "error"

\* C5: at the end of a run the systems read back from the written file are
\* the systems the run completed, those that ended with a captured error
\* included.
C5_RoundTrip ==
    pc = "done" =>
        load_completed_systems(fs, csv_filename)
            = completed_systems \cup Systems(all_results)

\* The ledger and the structures as the pure stage left them.
PureLedger == SubSeq(entries, 1, Len(CurrentElements))
PureStructures ==
    [f \in {PureLedger[i].formula : i \in DOMAIN PureLedger} |-> relaxed_structures[f]]

\* The (formula, energy) pairs of a ledger, the energy taken as a function of
\* the structure alone.
Pairs(ledger) == {<<ledger[i].formula, ledger[i].energy[1]>> : i \in DOMAIN ledger}

\* C6: on the same ratio list and the same builder and relaxer behaviour,
\* failures included, the batched and the sequential strategy register the
\* same (formula, energy) pairs and keep the same structures.
C6_StrategiesAgree ==
    (/\ pc \in {"analyze", "crashed"}
     /\ ratio_outcome # <<>>
     /\ ~IsTernary(cfg.variant)
     /\ Len(MixRequests(cfg)) > 1) =>
        LET batched == run_parallel_ratio_relaxation(cfg, CurrentElements,
                           ratio_outcome, PureLedger, PureStructures)
            sequential == run_sequential_ratio_relaxation(cfg, CurrentElements,
                              ratio_outcome, PureLedger, PureStructures)
        IN  /\ batched.raised = sequential.raised
            /\ Pairs(batched.entries) = Pairs(sequential.entries)
            /\ batched.relaxed_structures = sequential.relaxed_structures

\* The entries registered by the mixed-ratio stage.
MixedLedger == SubSeq(entries, Len(CurrentElements) + 1, Len(entries))

\* C7: in batched relaxation a failing member does not end the batch: it
\* comes back with energy +infinity and is not registered, and every other
\* member, of the same and of later batches, is relaxed and registered.
C7_BatchFailureIsolated ==
    /\ \A k \in DOMAIN entries : entries[k].energy # Inf
    /\ (pc = "analyze" /\ UsesBatches(cfg)) =>
         LET requests == MixRequests(cfg)
             atoms_list == [i \in DOMAIN requests |->
                               MixedCounts(cfg, CurrentElements, requests[i])]
             relaxed == {i \in DOMAIN requests : ratio_outcome[i] # "relax_fail"}
             member(k) == CHOOSE i \in relaxed :
                              Cardinality({j \in relaxed : j <= i}) = k
         IN  /\ Len(batch_results) = Len(requests)
             /\ Len(MixedLedger) = Cardinality(relaxed)
             /\ \A i \in DOMAIN requests :
                  IF i \in relaxed
                  THEN /\ batch_results[i][2] # Inf
                       /\ ReducedFormula(atoms_list[i]) \in DOMAIN relaxed_structures
                  ELSE batch_results[i] = <<atoms_list[i], Inf>>
             /\ \A k \in DOMAIN MixedLedger :
                  /\ MixedLedger[k].formula = ReducedFormula(atoms_list[member(k)])
                  /\ MixedLedger[k].energy = batch_results[member(k)][2]

\* Three ratios in two batches: the first member of the first batch failed,
\* its neighbour and the member of the second batch were registered.
C7_Witness ==
    /\ pc = "analyze"
    /\ UsesBatches(cfg)
    /\ ratio_outcome = <<"relax_fail", "ok", "ok">>
    /\ Len(MixedLedger) = 2
    /\ batch_results[1][2] = Inf

\* The formulas of a list of tasks or invocations.
Formulas(seq) == [i \in DOMAIN seq |-> seq[i].formula]

\* C8: of the formulas marked stable, exactly the multi-element ones are
\* handed to MD; a pure single-element formula never is.
C8_OnlyMixedToMD ==
    /\ \A i \in DOMAIN md_log : ~IsPure(md_log[i].formula)
    /\ pc = "return" =>
         Formulas(md_log) = SelectSeq(stable_formulas, LAMBDA f : ~IsPure(f))

C10_MDFailureIsolated ==
    /\ pc = "crashed" => md_log = <<>>
    /\ (pc = "ret" /\ result.kind = "ok") =>
         /\ Formulas(md_log)
              = Formulas(TasksFrom(cfg.variant, stable_formulas, relaxed_structures, 1))
         /\ \A i \in DOMAIN md_log :
              md_log[i].outcome = "ok" =>
                \E k \in DOMAIN detailed_data :
                    /\ detailed_data[k].formula = md_log[i].formula
                    /\ detailed_data[k].md_performed
         /\ \A k \in DOMAIN detailed_data :
              detailed_data[k].md_performed =>
                \E i \in DOMAIN md_log :
                    /\ md_log[i].formula = detailed_data[k].formula
                    /\ md_log[i].outcome # "run_fail"
         /\ detailed_data # <<>>

\* A system returned after its first MD task failed and a later one succeeded.
C10_Witness ==
    /\ pc = "ret"
    /\ result.kind = "ok"
    /\ Len(md_log) >= 3
    /\ md_log[1].outcome = "run_fail"
    /\ md_log[2].outcome = "analysis_error"
    /\ md_log[3].outcome = "ok"
    /\ \E k \in DOMAIN detailed_data :
         detailed_data[k].formula = md_log[3].formula /\ detailed_data[k].md_performed

\* A checkpoint that cannot be resumed from: the file cannot be parsed, or
\* its table has no 'system' column.
BadCheckpoint ==
    \/ "old" \in fs.unreadable
    \/ fs.old # <<>> /\ \A i \in DOMAIN fs.old : fs.old[i].system = NaN

\* C15: a resumed run whose checkpoint cannot be read, or has no 'system'
\* column, goes on as a fresh start: no system is skipped, the accumulated
\* records start empty and hold nothing of that file, and the output goes to
\* a new file.
C15_BadCheckpointIsFreshStart ==
    (cfg.variant = "script" /\ cfg.resume /\ pc # "start" /\ BadCheckpoint) =>
        /\ completed_systems = {}
        /\ csv_filename = "new"
        /\ all_results = <<>> => all_detailed_data = <<>>
        /\ \A i \in DOMAIN all_detailed_data : all_detailed_data[i].system # NaN
        /\ \A i \in DOMAIN fs.new : fs.new[i].system # NaN

\* No two rows of a table share their (system, formula) key.
UniqueKeys(rows) ==
    \A i, j \in DOMAIN rows :
        (rows[i].system = rows[j].system /\ rows[i].formula = rows[j].formula)
            => i = j

\* C16: the records of a system, the accumulated records and the written
\* table hold at most one row per (system, formula), also when two mixing
\* ratios give structures of the same reduced formula.
C16_OneRecordPerFormula ==
    /\ UniqueKeys(detailed_data)
    /\ UniqueKeys(all_detailed_data)
    /\ UniqueKeys(fs.new)

\* C11: a record marked md_performed is a record marked is_stable.
C11_MDOnlyOnStable ==
    /\ \A i \in DOMAIN detailed_data :
         detailed_data[i].md_performed => detailed_data[i].is_stable
    /\ \A i \in DOMAIN all_detailed_data :
         all_detailed_data[i].md_performed => all_detailed_data[i].is_stable
    /\ \A i \in DOMAIN fs.new : fs.new[i].md_performed => fs.new[i].is_stable

\* ---------------------------------------------------------- library calls
\* One call of a library function: probe holds the function, its arguments
\* and, once the call has returned, its result.
CallOf(op, args) == [op |-> op, args |-> args, done |-> FALSE]

\* The call returns `out`; `given` is what its collaborators answered.
ReturnsGiven(out, given) ==
    [op |-> probe.op, args |-> probe.args, done |-> TRUE, out |-> out,
     given |-> given]

Returns(out) == ReturnsGiven(out, <<>>)

Calling(op) == probe.op = op /\ ~probe.done
Called(op) == probe.op = op /\ probe.done

\* The pipeline is not running while a library function is called alone.
PipelineIdle ==
    UNCHANGED <<cfg, element_pairs, fs, pc, idx, main_vars, system_vars, calls, md_log>>

\* The three elements given to TernaryAlloyMixer(element_A, element_B, element_C).
Symbols == LatticeData \cup {"Zz"}

Triplets ==
    {t \in [1..3 -> Symbols] : t[1] # t[2] /\ t[1] # t[3] /\ t[2] # t[3]}

\* TernaryAlloyMixer.__init__: self.base_element = self._select_base_element()
CallSelectBaseElement ==
    /\ Calling("select_base_element")
    /\ probe' = Returns(select_base_element(probe.args))
    /\ PipelineIdle

\* A cell of the 'formula' column is the sequence of element symbols its text
\* names; NaN is an empty cell and Unparsable a text Composition() rejects.
Unparsable == <<"?">>

FormulaCells ==
    { <<"Ni", "Cu">>, <<"Cu", "Ni">>, <<"Cr", "Fe">>, <<"Fe">>,
      <<"Ni", "Fe", "Cr">>, <<"Cr", "Fe", "Ni">>, Unparsable, NaN }

\* Composition(formula) raises on a text that names no element.
Parses(cell) == \A i \in DOMAIN cell : cell[i] \in Symbols

\* sorted([str(el) for el in comp.elements])
RECURSIVE SortSymbols(_)
SortSymbols(S) ==
    IF S = {} THEN <<>>
    ELSE LET first == CHOOSE e \in S : \A o \in S : SymbolRank(e) <= SymbolRank(o)
         IN  <<first>> \o SortSymbols(S \ {first})

\* The set the loop over df['formula'].dropna() builds: the sorted symbol
\* tuples of the cells that parse and name `arity` elements.
ElementKeys(arity, formulas) ==
    {SortSymbols(Range(formulas[i])) :
        i \in {j \in DOMAIN formulas :
                  /\ formulas[j] # NaN
                  /\ Parses(formulas[j])
                  /\ Cardinality(Range(formulas[j])) = arity}}

\* list(a_set): the members, in an order the program does not choose.
Orderings(S) ==
    {o \in [1..Cardinality(S) -> S] : \A i, j \in DOMAIN o : o[i] = o[j] => i = j}

\* Faulty variant of the cap: the whole list is returned.
TruncateNothing(list, max_systems) == list

\* if max_systems is not None: pairs_list = pairs_list[:max_systems]
\* max_systems is <<>> for None and <<n>> for the number n.
Truncate(list, max_systems) ==
    IF max_systems = <<>> THEN list
    ELSE SubSeq(list, 1, Min(max_systems[1], Len(list)))

\* The lists a system enumerator can return for a table.
load_element_systems(arity, table, max_systems) ==
    IF ~table.exists \/ ~table.has_formula THEN {<<>>}
    ELSE {Truncate(o, max_systems) : o \in Orderings(ElementKeys(arity, table.formulas))}

load_element_pairs_from_csv(table, max_systems) ==
    load_element_systems(2, table, max_systems)

load_element_triplets_from_csv(table, max_systems) ==
    load_element_systems(3, table, max_systems)

\* Longest 'formula' column and largest cap explored.
MaxFormulas == 3
MaxCap == 2

RECURSIVE SeqsUpTo(_, _)
SeqsUpTo(S, n) ==
    IF n = 0 THEN {<<>>}
    ELSE SeqsUpTo(S, n - 1)
         \cup {Append(q, x) : q \in {r \in SeqsUpTo(S, n - 1) : Len(r) = n - 1}, x \in S}

Tables ==
    {[exists |-> FALSE, has_formula |-> FALSE, formulas |-> <<>>],
     [exists |-> TRUE, has_formula |-> FALSE, formulas |-> <<>>]}
    \cup {[exists |-> TRUE, has_formula |-> TRUE, formulas |-> f] :
             f \in SeqsUpTo(FormulaCells, MaxFormulas)}

Caps == {<<>>} \cup {<<n>> : n \in 0..MaxCap}

\* load_element_pairs_from_csv / load_element_triplets_from_csv
CallLoadElementSystems ==
    /\ Calling("load_element_systems")
    /\ \E out \in (IF probe.args.arity = 2
                   THEN load_element_pairs_from_csv(probe.args.table,
                                                    probe.args.max_systems)
                   ELSE load_element_triplets_from_csv(probe.args.table,
                                                       probe.args.max_systems)) :
          probe' = Returns(out)
    /\ PipelineIdle

\* What the Materials Project lookup gives back: it raises, or returns a list
\* of results.  A binary result is its formula as <<atoms of A, atoms of B>>,
\* a ternary result its composition_ratio.
MaxMined == 2

BinaryResults == {<<1, 0>>, <<0, 1>>, <<1, 1>>, <<3, 1>>}
TernaryResults == {<<1, 1, 1>>, <<2, 1, 1>>, <<1, 1, 2>>}

MinedOutcomes(variant) ==
    {[raised |-> TRUE, results |-> <<>>]}
    \cup {[raised |-> FALSE, results |-> r] :
             r \in SeqsUpTo(IF IsTernary(variant) THEN TernaryResults
                            ELSE BinaryResults, MaxMined)}

\* round(comp.get_atomic_fraction(element_B), 3), in permille.
AtomicFractionB(formula) ==
    (2000 * formula[2] + (formula[1] + formula[2]))
        \div (2 * (formula[1] + formula[2]))

\* sorted(list(set(...))) of numbers.
RECURSIVE SortNumbers(_)
SortNumbers(S) ==
    IF S = {} THEN <<>>
    ELSE LET least == CHOOSE x \in S : \A y \in S : x <= y
         IN  <<least>> \o SortNumbers(S \ {least})

\* Python's order on 3-tuples.
TupleLeq(a, b) ==
    \/ a[1] < b[1]
    \/ a[1] = b[1] /\ a[2] < b[2]
    \/ a[1] = b[1] /\ a[2] = b[2] /\ a[3] <= b[3]

\* TernaryMaterialMiner.get_unique_ratios
RECURSIVE SortTuples(_)
SortTuples(S) ==
    IF S = {} THEN <<>>
    ELSE LET least == CHOOSE x \in S : \A y \in S : TupleLeq(x, y)
         IN  <<least>> \o SortTuples(S \ {least})

get_unique_ratios(results) == SortTuples(Range(results))

\* if MAX_RATIOS and len(ratios) > MAX_RATIOS: ratios = ratios[:MAX_RATIOS]
\* (None is 0 here: both are false in the test).
LimitRatios(ratios, max_ratios) ==
    IF max_ratios # 0 /\ Len(ratios) > max_ratios
    THEN SubSeq(ratios, 1, max_ratios) ELSE ratios

\* The locally generated list of a system kind.
GeneratedRatios(variant, step) ==
    IF IsTernary(variant) THEN generate_composition_ratios(3, MaxTernaryTotal)
    ELSE get_mixing_ratios(step)

\* MaterialPipeline._get_binary_ratios
get_binary_ratios(mode, step, max_ratios, mined) ==
    IF mode = "mined" /\ ~mined.raised /\ mined.results # <<>>
    THEN LET inside == {i \in DOMAIN mined.results :
                           /\ mined.results[i][2] > 0
                           /\ mined.results[i][1] > 0}
             mixing_ratios ==
                 SortNumbers({AtomicFractionB(mined.results[i]) : i \in inside})
         IN  LimitRatios(mixing_ratios, max_ratios)
    ELSE get_mixing_ratios(step)

\* MaterialPipeline._get_ternary_compositions
get_ternary_compositions(mode, max_ratios, mined) ==
    IF mode = "mined" /\ ~mined.raised /\ mined.results # <<>>
    THEN LimitRatios(get_unique_ratios(mined.results), max_ratios)
    ELSE generate_composition_ratios(3, MaxTernaryTotal)

\* run_ternary_experiment, the composition list: an empty mined list and a
\* failed lookup both switch to the generated list.
script_ternary_compositions(mode, max_ratios, mined) ==
    IF mode = "mined" /\ ~mined.raised
    THEN LET compositions == LimitRatios(get_unique_ratios(mined.results), max_ratios)
         IN  IF compositions = <<>>
             THEN generate_composition_ratios(3, MaxTernaryTotal)
             ELSE compositions
    ELSE generate_composition_ratios(3, MaxTernaryTotal)

\* The ratio list an entry point hands to its relaxation stage;
\* run_pipeline.py has no mined mode.
select_ratios(variant, mode, step, max_ratios, mined) ==
    CASE variant = "script" -> get_mixing_ratios(step)
      [] variant = "library" -> get_binary_ratios(mode, step, max_ratios, mined)
      [] variant = "ternary_library" -> get_ternary_compositions(mode, max_ratios, mined)
      [] OTHER -> script_ternary_compositions(mode, max_ratios, mined)

\* BINARY_MINING_MAX_RATIOS / TERNARY_MINING_MAX_RATIOS values explored.
MaxRatioCaps == {0, 1}

RatioCalls ==
    {[variant |-> v, mode |-> m, step |-> s, max_ratios |-> k] :
        v \in Variants, m \in {"generated", "mined"},
        s \in StepsUpTo(MaxRatiosManual), k \in MaxRatioCaps}

\* The composition list of a system: the lookup answers, the list is chosen.
CallSelectRatios ==
    /\ Calling("select_ratios")
    /\ \E mined \in MinedOutcomes(probe.args.variant) :
          probe' = ReturnsGiven(select_ratios(probe.args.variant, probe.args.mode,
                                              probe.args.step, probe.args.max_ratios,
                                              mined),
                                mined)
    /\ PipelineIdle

\* Thresholds (meV/atom) and hull distances (meV/atom) explored, and the
\* longest ledger handed to the analyzer.
Thresholds == {0, 50}
HullValues == {0, 30, 80}
MaxEntries == 3

\* Faulty variant of the constructor: every run takes STABILITY_THRESHOLD.
analyzer_init_binary(variant, config) ==
    [raised |-> variant = "ternary_script", threshold |-> config.STABILITY_THRESHOLD]

\* The StabilityAnalyzer constructor as each entry point calls it:
\* StabilityAnalyzer() takes SimConfig.STABILITY_THRESHOLD, run_triplet passes
\* stability_threshold=TERNARY_STABILITY_THRESHOLD, and run_ternary_pipeline.py
\* passes the keyword `threshold`, which the constructor does not take.
analyzer_init(variant, config) ==
    CASE variant \in {"script", "library"} ->
             [raised |-> FALSE, threshold |-> config.STABILITY_THRESHOLD]
      [] variant = "ternary_library" ->
             [raised |-> FALSE, threshold |-> config.TERNARY_STABILITY_THRESHOLD]
      [] OTHER -> [raised |-> TRUE, threshold |-> 0]

\* PhaseDiagram(self.entries) and pd.get_e_above_hull(entry): it raises, or
\* gives each entry its distance to the hull.
PhaseDiagrams(formulas) ==
    {[raised |-> TRUE, hull |-> <<>>]}
    \cup {[raised |-> FALSE, hull |-> h] : h \in [DOMAIN formulas -> HullValues]}

\* StabilityAnalyzer.analyze on the registered entries: nothing for an empty
\* ledger, else one result per entry.
analyze_entries(formulas, threshold, pd) ==
    IF formulas = <<>> THEN [raised |-> FALSE, results |-> <<>>]
    ELSE IF pd.raised THEN [raised |-> TRUE, results |-> <<>>]
    ELSE [raised |-> FALSE,
          results |-> [i \in DOMAIN formulas |->
                          [formula |-> formulas[i],
                           energy_above_hull |-> pd.hull[i],
                           is_stable |-> pd.hull[i] <= threshold]]]

\* What the caller of analyze() reports: `if not results` gives stable_count
\* 0 and no records, else one record per result.
caller_report(results) ==
    [stable_count |-> Cardinality({i \in DOMAIN results : results[i].is_stable}),
     records |-> Len(results)]

LedgerFormulas == {<<1, 0>>, <<0, 1>>, <<1, 1>>}

AnalyzeCalls ==
    {[variant |-> v,
      config |-> [STABILITY_THRESHOLD |-> tb, TERNARY_STABILITY_THRESHOLD |-> tt],
      formulas |-> f] :
        v \in Variants, tb \in Thresholds, tt \in Thresholds,
        f \in SeqsUpTo(LedgerFormulas, MaxEntries)}

\* One stability analysis: the analyzer is constructed, the phase diagram
\* answers, the caller reports.
CallAnalyze ==
    /\ Calling("analyze")
    /\ LET made == analyzer_init(probe.args.variant, probe.args.config)
       IN  IF made.raised
           THEN probe' = Returns([raised |-> TRUE, constructed |-> FALSE,
                                  results |-> <<>>,
                                  report |-> caller_report(<<>>)])
           ELSE \E pd \in PhaseDiagrams(probe.args.formulas) :
                   LET got == analyze_entries(probe.args.formulas, made.threshold, pd)
                   IN  probe' = ReturnsGiven([raised |-> got.raised,
                                              constructed |-> TRUE,
                                              results |-> got.results,
                                              report |-> caller_report(got.results)],
                                             pd)
    /\ PipelineIdle

\* round(100 * x / y, 2) in hundredths, for x >= 0, y > 0.
RoundDiv(x, y) == (2 * x + y) \div (2 * y)

Abs(x) == IF x < 0 THEN 0 - x ELSE x

\* A measured value is <<n>>; NaN is a value the reference table lacks.
IsNumber(v) == v # NaN

\* Faulty variant of the weighting: lattice 0.4, density 0.6.
WeightedError_swapped(a_error, rho_error) ==
    <<4 * a_error[1] * rho_error[2] + 6 * rho_error[1] * a_error[2],
      10 * a_error[2] * rho_error[2]>>

\* total_error = (a_error * 0.6) + (rho_error * 0.4), as a fraction <<n, d>>.
WeightedError(a_error, rho_error) ==
    <<6 * a_error[1] * rho_error[2] + 4 * rho_error[1] * a_error[2],
      10 * a_error[2] * rho_error[2]>>

\* Python's round(x / y) for x >= 0, y > 0: ties go to the even integer.
RoundHalfEven(x, y) ==
    LET q == x \div y
        r == x % y
    IN  IF 2 * r < y THEN q
        ELSE IF 2 * r > y THEN q + 1
        ELSE IF q % 2 = 0 THEN q ELSE q + 1

\* Faulty variant of the supercell test: twice the reference is enough.
IsSupercell_double(sim_a_raw, exp_a) ==
    IsNumber(exp_a) /\ sim_a_raw > 2 * exp_a[1]

\* if sim_a_raw > exp_a * 2.5 (false when the reference is NaN)
IsSupercell(sim_a_raw, exp_a) ==
    IsNumber(exp_a) /\ 2 * sim_a_raw > 5 * exp_a[1]

\* MaterialValidator.calculate_score for one matched row.  Lengths and
\* densities are whole numbers of a small unit; errors and the score are
\* fractions <<n, d>>, the reported fields are in hundredths.
calculate_score(sim_a_raw, exp_a, sim_rho, exp_rho) ==
    LET supercell == IsSupercell(sim_a_raw, exp_a)
        supercell_factor == IF supercell THEN RoundHalfEven(sim_a_raw, exp_a[1]) ELSE 1
        a_error == IF IsNumber(exp_a) /\ exp_a[1] > 0
                   THEN <<100 * Abs(sim_a_raw - supercell_factor * exp_a[1]),
                          supercell_factor * exp_a[1]>>
                   ELSE <<0, 1>>
        rho_error == IF IsNumber(exp_rho) /\ exp_rho[1] > 0
                     THEN <<100 * Abs(sim_rho - exp_rho[1]), exp_rho[1]>>
                     ELSE <<0, 1>>
        total_error == WeightedError(a_error, rho_error)
        score == IF 100 * total_error[2] - total_error[1] > 0
                 THEN <<100 * total_error[2] - total_error[1], total_error[2]>>
                 ELSE <<0, 1>>
    IN  [supercell_factor |-> supercell_factor,
         sim_a |-> <<sim_a_raw, supercell_factor>>,
         a_error |-> a_error,
         rho_error |-> rho_error,
         lattice_error_pct |-> RoundDiv(100 * a_error[1], a_error[2]),
         density_error_pct |-> RoundDiv(100 * rho_error[1], rho_error[2]),
         accuracy_score |-> RoundDiv(100 * score[1], score[2])]

\* Simulated and reference values: the references main passes come from the
\* reference tables, positive or missing.
SimLattices == {19, 20, 21, 22, 40, 50, 60, 63, 80, 90}
ExpLattices == {NaN, <<20>>, <<25>>}
SimDensities == {5, 9, 10, 11, 30}
ExpDensities == {NaN, <<10>>, <<8>>}

ScoreCalls ==
    {[sim_a_raw |-> sa, exp_a |-> ea, sim_rho |-> sr, exp_rho |-> er] :
        sa \in SimLattices, ea \in ExpLattices, sr \in SimDensities,
        er \in ExpDensities}

CallCalculateScore ==
    /\ Calling("calculate_score")
    /\ probe' = Returns(calculate_score(probe.args.sim_a_raw, probe.args.exp_a,
                                        probe.args.sim_rho, probe.args.exp_rho))
    /\ PipelineIdle

\* ---------------------------------------------------------------------
\* MDAnalyzer.analyze: thermal statistics of one MD trajectory.
\* A frame holds its temperature (K), its cell volume and whether energies
\* were stored with it (atoms.calc).
MaxFrames == 5

Frames ==
    {[calc |-> TRUE,  temp |-> 100, volume |-> 100],
     [calc |-> TRUE,  temp |-> 115, volume |-> 100],
     [calc |-> TRUE,  temp |-> 100, volume |-> 112],
     [calc |-> TRUE,  temp |-> 0,   volume |-> 120],
     [calc |-> FALSE, temp |-> 0,   volume |-> 100]}

Trajectories == SeqsUpTo(Frames, MaxFrames)

RECURSIVE SumSeq(_)
SumSeq(q) == IF q = <<>> THEN 0 ELSE Head(q) + SumSeq(Tail(q))

Squares(q) == [i \in DOMAIN q |-> q[i] * q[i]]

\* std / mean * 100 < limit, with mean and std over the list (np.mean,
\* np.std); a list whose mean is not positive has fluctuation 0.
FluctuationBelow(temperatures, limit) ==
    LET k == Len(temperatures)
        s == SumSeq(temperatures)
        kkvar == k * SumSeq(Squares(temperatures)) - s * s
    IN  IF s > 0 THEN 10000 * kkvar < limit * limit * s * s ELSE 0 < limit

\* abs((final - initial) / initial * 100) < limit
VolumeChangeBelow(final_volume, initial_volume, limit) ==
    100 * Abs(final_volume - initial_volume) < limit * initial_volume

\* Faulty variant: nothing is discarded.
skip_nothing(total_frames) == 0

\* int(total_frames * 0.2)
skip_frames_of(total_frames) == (2 * total_frames) \div 10

analyze_trajectory(traj) ==
    IF Len(traj) = 0 THEN [error |-> "Empty trajectory"]
    ELSE
    LET total_frames == Len(traj)
        skip_frames == skip_frames_of(total_frames)
        sliced == [i \in 1..(total_frames - skip_frames) |-> skip_frames + i - 1]
        \* frame numbers (from 0) of the analyzed part
        analyzed_traj == IF Len(sliced) = 0
                         THEN [i \in 1..total_frames |-> i - 1]
                         ELSE sliced
        with_energy == SelectSeq(analyzed_traj, LAMBDA f : traj[f + 1].calc)
        temperatures == [i \in DOMAIN with_energy |-> traj[with_energy[i] + 1].temp]
        final_atoms == analyzed_traj[Len(analyzed_traj)]
        initial_atoms == 0
    IN  IF with_energy = <<>> THEN [error |-> "No energy data available"]
        ELSE [error |-> "none",
              trajectory_frames |-> Len(analyzed_traj),
              total_frames_original |-> total_frames,
              energy_frames |-> with_energy,
              temperatures |-> temperatures,
              volume_frames |-> <<final_atoms, initial_atoms>>,
              is_thermally_stable |->
                  /\ FluctuationBelow(temperatures, 10)
                  /\ VolumeChangeBelow(traj[final_atoms + 1].volume,
                                       traj[initial_atoms + 1].volume, 15)]

CallMDAnalyze ==
    /\ Calling("md_analyze")
    /\ probe' = Returns(analyze_trajectory(probe.args))
    /\ PipelineIdle

\* ---------------------------------------------------------------------
\* main's resume block: which result file is loaded and which is written.
\* A result file is named by its timestamp pipeline_results_<stamp>.csv; a
\* stamp is the tuple of its (fixed-width) digit groups, so the order of the
\* names as strings is the order of the tuples.
Stamps == {<<0, 1, 2>>, <<0, 2, 0>>, <<1, 0, 0>>}

\* datetime.now() of this run: later than every file present.
Now == <<1, 1, 0>>

None == <<>>

\* Faulty variant: the first name in ascending order.
find_oldest_result_csv(names) ==
    IF names = {} THEN None ELSE SortTuples(names)[1]

\* glob, sort(reverse=True), first element.
find_latest_result_csv(names) ==
    IF names = {} THEN None
    ELSE LET csv_files == SortTuples(names) IN csv_files[Len(csv_files)]

\* names: the result files present; with_systems: those of them that can be
\* read and have a 'system' column with values.
resume_block(resume_mode, resume_csv_path, names, with_systems) ==
    LET resume_csv == IF ~resume_mode THEN None
                      ELSE IF resume_csv_path # None THEN resume_csv_path
                      ELSE find_latest_result_csv(names)
        completed == resume_csv # None /\ resume_csv \in with_systems
    IN  [loaded |-> IF resume_csv \in names THEN resume_csv ELSE None,
         completed |-> completed,
         csv_filename |-> IF completed THEN resume_csv ELSE Now]

ResumeCalls ==
    {c \in [resume_mode : BOOLEAN, resume_csv_path : {None} \cup Stamps,
             names : SUBSET Stamps, with_systems : SUBSET Stamps] :
        c.with_systems \subseteq c.names}

CallResumeBlock ==
    /\ Calling("resume_block")
    /\ probe' = Returns(resume_block(probe.args.resume_mode, probe.args.resume_csv_path,
                                     probe.args.names, probe.args.with_systems))
    /\ PipelineIdle

\* BatchStructureRelaxer(calc, batch_size).run_batch(atoms_list) called on
\* its own: the structures of a list, the members whose relaxation raises,
\* and the batch size.
MaxBatchList == 4

BatchStructures == {<<1, 3>>, <<2, 2>>, <<3, 1>>}

BatchSizes == {1, 2, 3, 5}

BatchCalls ==
    {c \in [atoms_list : SeqsUpTo(BatchStructures, MaxBatchList),
            failing : SUBSET (1..MaxBatchList), batch_size : BatchSizes] :
        c.failing \subseteq DOMAIN c.atoms_list}

CallRunBatch ==
    /\ Calling("run_batch")
    /\ probe' = Returns(run_batch(probe.args.atoms_list, probe.args.failing,
                                  probe.args.batch_size))
    /\ PipelineIdle

\* The calls explored: each starts with its arguments chosen.
InitCalls ==
    /\ cfg \in {c \in Configs({"library"}, "manual", MaxRatiosManual) :
                   c.supercell_size = 4 /\ c.step = 500 /\ ~c.parRatio /\ ~c.parMD}
    /\ element_pairs = << ManualSystem(cfg.variant) >>
    /\ fs \in Checkpoints(cfg, ManualSystem(cfg.variant))
    /\ InitCommon
    /\ \/ \E t \in Triplets : probe = CallOf("select_base_element", t)
       \/ \E a \in {2, 3}, t \in Tables, m \in Caps :
             probe = CallOf("load_element_systems",
                            [arity |-> a, table |-> t, max_systems |-> m])
       \/ \E r \in RatioCalls : probe = CallOf("select_ratios", r)
       \/ \E a \in AnalyzeCalls : probe = CallOf("analyze", a)
       \/ \E c \in ScoreCalls : probe = CallOf("calculate_score", c)
       \/ \E t \in Trajectories : probe = CallOf("md_analyze", t)
       \/ \E r \in ResumeCalls : probe = CallOf("resume_block", r)
       \/ \E b \in BatchCalls : probe = CallOf("run_batch", b)

NextCalls ==
    \/ CallSelectBaseElement
    \/ CallLoadElementSystems
    \/ CallSelectRatios
    \/ CallAnalyze
    \/ CallCalculateScore
    \/ CallMDAnalyze
    \/ CallResumeBlock
    \/ CallRunBatch

\* Library functions called on their own, outside a pipeline run.
SpecCalls == InitCalls /\ [][NextCalls]_vars

\* The elements of a triplet with the highest family priority.
TopPriority(elements) ==
    {e \in Range(elements) :
        \A o \in Range(elements) : CrystalPriority(e) >= CrystalPriority(o)}

\* C19: the base element of a triplet has the highest family priority of the
\* three (fcc > bcc > hcp > unknown), and of the elements that share that
\* priority it is the alphabetically earliest.
C19_BaseElementRule ==
    Called("select_base_element") =>
        /\ probe.out \in TopPriority(probe.args)
        /\ \A o \in TopPriority(probe.args) : SymbolRank(probe.out) <= SymbolRank(o)

\* The threshold configured for a run of an entry point.
ConfiguredThreshold(variant, config) ==
    IF IsTernary(variant) THEN config.TERNARY_STABILITY_THRESHOLD
    ELSE config.STABILITY_THRESHOLD

C13_FewCompositionsEmpty ==
    (/\ Called("analyze")
     /\ probe.out.constructed
     /\ Cardinality(Range(probe.args.formulas)) < 2) =>
        /\ ~probe.out.raised
        /\ probe.out.results = <<>>
        /\ probe.out.report = [stable_count |-> 0, records |-> 0]

\* C17: the list a system enumerator returns has no key twice, every key is
\* a tuple of `arity` symbols in alphabetical order that some cell of the
\* column names, the list is no longer than the cap, and cells that do not
\* parse or name another number of elements leave no key.
C17_EnumeratorKeys ==
    Called("load_element_systems") =>
        LET out == probe.out
            arity == probe.args.arity
            formulas == probe.args.table.formulas
            max_systems == probe.args.max_systems
        IN  /\ \A i, j \in DOMAIN out : out[i] = out[j] => i = j
            /\ \A i \in DOMAIN out :
                 /\ Len(out[i]) = arity
                 /\ \A k \in 1..(arity - 1) :
                      SymbolRank(out[i][k]) < SymbolRank(out[i][k + 1])
                 /\ \A k \in 1..arity : out[i][k] \in Symbols
                 /\ \E j \in DOMAIN formulas : Range(formulas[j]) = Range(out[i])
            /\ max_systems # <<>> => Len(out) <= max_systems[1]
            /\ max_systems = <<>> =>
                 \A j \in DOMAIN formulas :
                     (Parses(formulas[j]) /\ Cardinality(Range(formulas[j])) = arity)
                         => \E i \in DOMAIN out : Range(out[i]) = Range(formulas[j])

\* A column with one pair written in two orders, a text that does not parse
\* and a triplet, capped at one: the one pair comes back once, sorted.
C17_Witness ==
    /\ Called("load_element_systems")
    /\ probe.args.arity = 2
    /\ probe.args.max_systems = <<1>>
    /\ probe.args.table.formulas = << <<"Ni", "Cu">>, Unparsable, <<"Cu", "Ni">> >>
    /\ probe.out = << <<"Cu", "Ni">> >>

\* The lookup gave a mixing ratio the system can use.
Usable(variant, mined) ==
    /\ ~mined.raised
    /\ \E i \in DOMAIN mined.results :
          IsTernary(variant) \/ (mined.results[i][1] > 0 /\ mined.results[i][2] > 0)

\* C18: in mined mode, when the lookup raises or gives no usable ratio, the
\* list handed to the relaxation stage is the locally generated one, and no
\* answer of the lookup leaves the list empty.
C18_MinedFallsBack ==
    (Called("select_ratios") /\ probe.args.mode = "mined") =>
        /\ ~Usable(probe.args.variant, probe.given) =>
               probe.out = GeneratedRatios(probe.args.variant, probe.args.step)
        /\ probe.out # <<>>

\* The exact score of a call, as a fraction <<n, d>>: 100 - (0.6 * lattice
\* error + 0.4 * density error), not below 0.
ExactScore(a_error, rho_error) ==
    LET d == 10 * a_error[2] * rho_error[2]
        n == 100 * d - (6 * a_error[1] * rho_error[2] + 4 * rho_error[1] * a_error[2])
    IN  IF n > 0 THEN <<n, d>> ELSE <<0, d>>

\* C20: the accuracy score of a matched formula is
\* max(0, 100 - (0.6 * lattice error % + 0.4 * density error %)) to two
\* decimals; 5 % and 0 % give 97.00; the score is never below 0 or above 100.
C20_ScoreFormula ==
    Called("calculate_score") =>
        LET exact == ExactScore(probe.out.a_error, probe.out.rho_error)
        IN  /\ 2 * Abs(probe.out.accuracy_score * exact[2] - 100 * exact[1]) <= exact[2]
            /\ probe.out.accuracy_score >= 0
            /\ probe.out.accuracy_score <= 10000
            /\ (/\ probe.out.a_error[1] = 5 * probe.out.a_error[2]
                /\ probe.out.rho_error[1] = 0) => probe.out.accuracy_score = 9700

\* Lattice 21 against 20 (5 %) and equal densities: the score is 97.00.
C20_Witness ==
    /\ Called("calculate_score")
    /\ probe.args.sim_a_raw = 21
    /\ probe.args.exp_a = <<20>>
    /\ probe.args.sim_rho = 10
    /\ probe.args.exp_rho = <<10>>
    /\ probe.out.lattice_error_pct = 500
    /\ probe.out.density_error_pct = 0
    /\ probe.out.accuracy_score = 9700

Presets ==
    {[name |-> "strict", temp_limit |-> 5, volume_limit |-> 10],
     [name |-> "relaxed", temp_limit |-> 10, volume_limit |-> 15]}

\* The classification under one pair of limits.
StableUnder(preset) ==
    /\ FluctuationBelow(probe.out.temperatures, preset.temp_limit)
    /\ VolumeChangeBelow(probe.args[probe.out.volume_frames[1] + 1].volume,
                         probe.args[probe.out.volume_frames[2] + 1].volume,
                         preset.volume_limit)

Analyzed == Called("md_analyze") /\ probe.out.error = "none"

\* C22: a trajectory is classified thermally stable iff its temperature
\* fluctuation is below the temperature limit and the magnitude of its volume
\* change is below the volume limit, the limits being those of whichever
\* calibration preset (strict 5%/10% or relaxed 10%/15%) the configuration
\* selects.
C22_PresetLimits ==
    Analyzed =>
        \A preset \in Presets : probe.out.is_thermally_stable <=> StableUnder(preset)

C24_UnknownModeEndsAtStartup ==
    /\ [](cfg.mode \notin {"auto", "manual"} =>
            /\ pc \in {"start", "ended"}
            /\ idx = 1
            /\ calls = {}
            /\ md_log = <<>>
            /\ FreshSystem
            /\ all_results = <<>>
            /\ fs.new = <<>>)
    /\ [][cfg.mode \notin {"auto", "manual"} => fs' = fs]_vars
    /\ [](cfg.mode \in {"auto", "manual"} => pc # "ended")
    /\ [][(cfg.mode \in {"auto", "manual"} /\ pc' = "done") =>
            (pc = "loop" /\ idx > Len(element_pairs))]_vars

\* A run with an unknown mode that found a checkpoint of an earlier run and
\* ended without touching it.
C24_Witness ==
    /\ cfg.mode \notin {"auto", "manual"}
    /\ pc = "ended"
    /\ completed_systems # {}
    /\ fs.old # <<>>
    /\ fs.new = <<>>


\* Every step of main except the mixed-ratio stage.
OtherSteps ==
    \/ Startup
    \/ SkipSystem
    \/ StartSystem
    \/ PureRelax
    \/ Analyze
    \/ PrepareMD
    \/ MDSequentialStep
    \/ MDPoolMap
    \/ MDWorkerFinish
    \/ MDPoolJoin
    \/ MDConsume
    \/ ReturnSystem
    \/ FinishSystem
    \/ FinalReport

\* The scripts run on when every external call returns: main is one
\* sequential thread, so a step that can be taken is taken.  The mixed-ratio
\* stage can be taken exactly while pc = "ratios" and always leaves it, so
\* its weak fairness is that the run is not at that stage forever.
SpecLive ==
    /\ InitAuto
    /\ [][Next]_vars
    /\ WF_vars(OtherSteps)
    /\ []<>(pc # "ratios")

\* Results main has collected for one system.
ResultsOf(system) == {i \in DOMAIN all_results : all_results[i].system = system}

\* C25: within one run every enumerated system is executed at most once,
\* and, every external call returning, the run eventually terminates with
\* every system of the list either skipped (present in the checkpoint) or
\* processed exactly once.
C25_TerminatesOncePerSystem ==
    /\ [](\A k \in DOMAIN element_pairs :
            Cardinality(ResultsOf(SystemName(element_pairs[k]))) <= 1)
    /\ <>(/\ pc = "done"
          /\ \A k \in DOMAIN element_pairs :
                LET system == SystemName(element_pairs[k])
                IN  IF system \in completed_systems
                    THEN ResultsOf(system) = {}
                    ELSE Cardinality(ResultsOf(system)) = 1)


\* The step that invokes the hull evaluation.
Evaluates == pc = "analyze" /\ pc' # "analyze"

\* C26: inside one system run the hull evaluation is invoked at most once,
\* only after every pure-element relaxation and every mixed-ratio relaxation
\* of the system has finished (succeeded or failed), and no MD run of the
\* system starts before the evaluation has returned.
C26_StageOrder ==
    [][/\ Evaluates =>
            /\ pure_done = Len(CurrentElements)
            /\ DOMAIN ratio_outcome = DOMAIN MixRequests(cfg)
            /\ md_log = <<>>
            /\ tasks = <<>>
            /\ pc' \in {"md", "ret", "crashed"}
       /\ pc' = "analyze" => pc \in {"ratios", "analyze"}
       /\ pc' = "ratios" => pc \in {"pure", "ratios"}
       /\ pc' = "pure" => pc \in {"loop", "pure"}
       /\ Len(md_log') > Len(md_log) => pc \in {"md_seq", "md_wait"}
       /\ pc' \in {"md", "md_seq", "md_pool", "md_wait", "md_consume"} =>
            pc \in {"analyze", "md", "md_seq", "md_pool", "md_wait", "md_consume"}]_vars

\* The library pipeline after the evaluation of a system whose mixed stage
\* had a failing member, before any MD run.
C26_Witness ==
    /\ cfg.variant = "library"
    /\ pc = "md"
    /\ pure_done = Len(CurrentElements)
    /\ Len(ratio_outcome) >= 2
    /\ \E i \in DOMAIN ratio_outcome : ratio_outcome[i] = "relax_fail"
    /\ stable_formulas # <<>>
    /\ md_log = <<>>


\* The stamp read as a number.
StampValue(stamp) == 100 * stamp[1] + 10 * stamp[2] + stamp[3]

\* C27: resume loads the checkpoint named in the configuration when one is
\* named, otherwise the pipeline_results_* file with the most recent
\* timestamp; when completed systems are found the run writes to that same
\* file, otherwise to a new timestamped file.
C27_ResumeTarget ==
    (Called("resume_block") /\ probe.args.resume_mode) =>
        LET path == probe.args.resume_csv_path
            names == probe.args.names
        IN  /\ (path # None /\ path \in names) => probe.out.loaded = path
            /\ (path # None /\ path \notin names) => probe.out.loaded = None
            /\ (path = None /\ names # {}) =>
                  /\ probe.out.loaded \in names
                  /\ \A n \in names : StampValue(n) <= StampValue(probe.out.loaded)
            /\ (path = None /\ names = {}) => probe.out.loaded = None
            /\ probe.out.completed <=>
                  (probe.out.loaded # None /\ probe.out.loaded \in probe.args.with_systems)
            /\ probe.out.csv_filename =
                  IF probe.out.completed THEN probe.out.loaded ELSE Now
            /\ Now \notin names

\* No path is named, three result files exist, the most recent one holds
\* completed systems and becomes the file of the run.
C27_Witness ==
    /\ Called("resume_block")
    /\ probe.args.resume_mode
    /\ probe.args.resume_csv_path = None
    /\ probe.args.names = Stamps
    /\ probe.out.completed
    /\ probe.out.csv_filename = <<1, 0, 0>>


IsPrefix(p, q) == Len(p) <= Len(q) /\ SubSeq(q, 1, Len(p)) = p

\* C28: the checkpoint is append-only: every snapshot the run writes extends
\* the previous one, no other file is touched, and in resume mode the records
\* loaded from the checkpoint, those of skipped systems among them, stand
\* unmodified at the head of every snapshot.
C28_AppendOnly ==
    [][fs' # fs =>
          /\ IsPrefix(fs[csv_filename], fs'[csv_filename])
          /\ Len(fs'[csv_filename]) > Len(fs[csv_filename]) \/ fs'[csv_filename] = fs[csv_filename]
          /\ csv_filename = "new" => fs'.old = fs.old
          /\ csv_filename = "old" => fs'.new = fs.new
          /\ (cfg.resume /\ "old" \notin fs.unreadable) =>
                IsPrefix(fs.old, fs'[csv_filename])]_vars

\* A resumed run that skipped the first system and wrote the records of the
\* second after those it had loaded.
C28_Witness ==
    /\ cfg.resume
    /\ csv_filename = "old"
    /\ SystemName(element_pairs[1]) \in completed_systems
    /\ all_results # <<>>
    /\ Len(fs.old) > Len(EarlierRun(element_pairs[1]))
    /\ IsPrefix(EarlierRun(element_pairs[1]), fs.old)


\* A worker process of the pool has not returned.
WorkerRunning == \E i \in DOMAIN md_results : ~md_results[i].done

\* C29: in multi-process MD the orchestrator is blocked until every task
\* handed to the pool has finished: while a worker is running no MD result
\* is analyzed or written into a record, and the results are consumed in
\* task order.
C29_PoolBlocksOrchestrator ==
    /\ [](WorkerRunning => pc = "md_wait")
    /\ [][/\ WorkerRunning =>
               /\ detailed_data' = detailed_data
               /\ md_count' = md_count
               /\ pc' \in {"md_wait", "md_consume"}
          /\ (pc = "md_wait" /\ pc' = "md_consume") =>
               /\ \A i \in DOMAIN md_results : md_results[i].done
               /\ md_results' = md_results
               /\ DOMAIN md_results = DOMAIN tasks
               /\ \A i \in DOMAIN tasks : md_results[i].formula = tasks[i].formula
          /\ (pc = "md_consume" /\ detailed_data' # detailed_data) =>
               /\ md_results' = Tail(md_results)
               /\ \A k \in DOMAIN detailed_data :
                     detailed_data'[k] # detailed_data[k] =>
                         detailed_data[k].formula = Head(md_results).formula
          /\ (pc = "md_consume" /\ pc' # "crashed") => md_results' = Tail(md_results)]_vars

\* Three tasks were handed to the pool, the last one finished first and the
\* first is still running: the orchestrator waits.
C29_Witness ==
    /\ pc = "md_wait"
    /\ Len(md_results) = 3
    /\ ~md_results[1].done
    /\ md_results[3].done
    /\ \A k \in DOMAIN detailed_data : ~detailed_data[k].md_performed

\* C30: checkpoint writes have a single writer and happen only at system
\* boundaries: the file is written by main between two system runs or after
\* the last one, never while a relaxation, a hull evaluation or an MD worker
\* of a system is in progress, and one write at a time.
C30_WritesAtBoundaries ==
    [][fs' # fs =>
          /\ pc \in {"ret", "loop"}
          /\ pc' \in {"loop", "done"}
          /\ ~WorkerRunning
          /\ tasks = <<>>
          /\ md_results = <<>>
          /\ \E name \in {"old", "new"} :
                /\ name = csv_filename
                /\ fs' = save_intermediate_csv(fs, name, all_detailed_data')]_vars

\* The file has been written after the first system while the second one is
\* waiting for its MD workers.
C30_Witness ==
    /\ idx = 2
    /\ pc = "md_wait"
    /\ WorkerRunning
    /\ fs[csv_filename] # <<>>
    /\ fs[csv_filename] = all_detailed_data


\* Systems a builder or relaxer was called for and main holds no result of.
InProgress ==
    {k \in DOMAIN element_pairs :
        /\ \E c \in calls : c[3] = SystemName(element_pairs[k])
        /\ \A i \in DOMAIN all_results : all_results[i].system # SystemName(element_pairs[k])}

C32_NoHandleCrossesProcesses ==
    /\ \A i \in DOMAIN tasks :
          /\ DOMAIN tasks[i] = {"formula", "relaxed_atoms", "atoms", "calc"}
          /\ tasks[i].calc = NoCalc
    /\ \A i \in DOMAIN md_results :
          md_results[i].done =>
              /\ md_results[i].calc # ParentCalc
              /\ md_results[i].calc # NoCalc
              /\ md_results[i].calc[1] = "worker"

\* Two tasks in the pool: one worker has finished with its own calculator
\* while the other is still running.
C32_Witness ==
    /\ pc = "md_wait"
    /\ Len(tasks) >= 2
    /\ md_results[1].done
    /\ md_results[1].calc = <<"worker", tasks[1].formula>>
    /\ ~md_results[2].done
    /\ tasks[2].calc = NoCalc


\* C33: the base element depends only on the set of the three elements: the
\* six orderings of the constructor arguments give the same base element.
C33_BaseElementOrderFree ==
    Called("select_base_element") =>
        \A t \in Triplets :
            Range(t) = Range(probe.args) => select_base_element(t) = probe.out

\* A triplet whose first two arguments share the highest priority; the one
\* selected is not the first argument.
C33_Witness ==
    /\ Called("select_base_element")
    /\ CrystalPriority(probe.args[1]) = CrystalPriority(probe.args[2])
    /\ CrystalPriority(probe.args[1]) > CrystalPriority(probe.args[3])
    /\ probe.out = probe.args[2]


\* Rows of the system run whose md_performed is true.
PerformedRows == {k \in DOMAIN detailed_data : detailed_data[k].md_performed}

\* C34: the MD count a system run of the pipeline reports equals the number
\* of its records whose md_performed is true, whatever MD runs fail or
\* analyses report an error, under both MD strategies.
C34_CountMatchesRecords ==
    (pc = "ret" /\ result.kind = "ok" /\ cfg.variant \in {"script", "library"}) =>
        result.md_count = Cardinality(PerformedRows)


\* C35: for every input list and every batch size of at least 1, run_batch
\* returns exactly one (structure, energy) result per input structure, in
\* input order, whatever members fail: result i belongs to input i, with an
\* infinite energy exactly when its relaxation failed.
C35_OneResultPerInput ==
    Called("run_batch") =>
        /\ Len(probe.out) = Len(probe.args.atoms_list)
        /\ \A i \in DOMAIN probe.args.atoms_list :
              /\ probe.out[i][1] = probe.args.atoms_list[i]
              /\ (probe.out[i][2] = Inf) <=> (i \in probe.args.failing)

\* Four different neighbours in batches of three, the second and the last
\* failing: the last batch is a short one.
C35_Witness ==
    /\ Called("run_batch")
    /\ probe.args.batch_size = 3
    /\ Len(probe.args.atoms_list) = 4
    /\ probe.args.failing = {2, 4}
    /\ probe.args.atoms_list[1] # probe.args.atoms_list[2]
    /\ probe.out[2][2] = Inf
    /\ probe.out[3][2] # Inf
    /\ probe.out[4] = <<probe.args.atoms_list[4], Inf>>


\* f"data/results/md_{formula_safe}_{int(temperature)}K.traj": the file a
\* task writes is named by the reduced formula of its structure; the
\* temperature is MD_TEMPERATURE for every task.
TrajectoryPath(task) == <<"md", task.formula>>

\* C36: in multi-process MD (here: of MaterialPipeline, which leaves pure
\* formulas out of the pool) no two tasks of one pool write the same
\* trajectory file: their reduced formulas, and so their output paths, are
\* pairwise distinct, for every list of stable formulas the hull stage
\* produces.
C36_DistinctTrajectoryFiles ==
    (pc = "md_wait" /\ cfg.variant = "library") =>
        \A i, j \in DOMAIN tasks :
            TrajectoryPath(tasks[i]) = TrajectoryPath(tasks[j]) => i = j


\* C37: enumeration is deterministic: every list a run of the enumerator can
\* return for a candidate table and a cap is the list another run over the
\* same table and cap returns, members and order.
C37_EnumerationDeterministic ==
    Called("load_element_systems") =>
        \A other \in load_element_systems(probe.args.arity, probe.args.table,
                                          probe.args.max_systems) :
            other = probe.out


\* ---------------------------------------------------------------------
\* ParallelSystemRunner(num_gpus).run_parallel(element_pairs, pipeline_func)
\* called on its own.  probe holds the call: phase, the task slots of the
\* pool and the list returned.
MaxPoolSystems == 3

GpuCounts == {1, 2, 3}

\* The pairs handed to run_parallel: the first n of a list.
PoolPairs(n) == [i \in 1..n |-> ElementPairs[((i - 1) % Len(ElementPairs)) + 1]]

\* What pipeline_func returns for a pair.
PipelineResult(pair) == <<"result", pair>>

\* gpu_id = idx % self.num_gpus
GpuOf(task_idx, num_gpus) == task_idx % num_gpus

\* run_system_on_gpu: the result of pipeline_func, None when it raises.
run_system_on_gpu(pair, outcome) ==
    IF outcome = "ok" THEN PipelineResult(pair) ELSE None

InitRunner ==
    /\ cfg \in {c \in Configs({"library"}, "manual", MaxRatiosManual) :
                   c.supercell_size = 4 /\ c.step = 500 /\ ~c.parRatio /\ ~c.parMD}
    /\ element_pairs = << ManualSystem(cfg.variant) >>
    /\ fs \in Checkpoints(cfg, ManualSystem(cfg.variant))
    /\ InitCommon
    /\ \E n \in 0..MaxPoolSystems, g \in GpuCounts :
          probe = [op |-> "run_parallel", num_gpus |-> g, pairs |-> PoolPairs(n),
                   phase |-> "called", slots |-> <<>>, out |-> <<>>]

\* if self.num_gpus <= 1: the pairs run one after the other in the caller's
\* process; an exception of pipeline_func leaves run_parallel.
RunnerSequential ==
    /\ probe.op = "run_parallel"
    /\ probe.phase = "called"
    /\ probe.num_gpus <= 1
    /\ \E outcome \in [DOMAIN probe.pairs -> {"ok", "raise"}] :
          probe' = IF \E i \in DOMAIN outcome : outcome[i] = "raise"
                   THEN [probe EXCEPT !.phase = "raised"]
                   ELSE [probe EXCEPT !.phase = "returned",
                            !.out = [i \in DOMAIN probe.pairs |->
                                        PipelineResult(probe.pairs[i])]]
    /\ PipelineIdle

\* with mp.Pool(processes=self.num_gpus): every pair is submitted with
\* apply_async, in input order, with its GPU id.
RunnerSubmit ==
    /\ probe.op = "run_parallel"
    /\ probe.phase = "called"
    /\ probe.num_gpus > 1
    /\ probe' = [probe EXCEPT !.phase = "pool",
                    !.slots = [i \in DOMAIN probe.pairs |->
                                  [gpu_id |-> GpuOf(i - 1, probe.num_gpus),
                                   state |-> "queued", result |-> None]]]
    /\ PipelineIdle

RunningTasks == {i \in DOMAIN probe.slots : probe.slots[i].state = "running"}
QueuedTasks == {i \in DOMAIN probe.slots : probe.slots[i].state = "queued"}

\* A free worker of the pool takes the oldest task of the queue.
RunnerWorkerTake ==
    /\ probe.op = "run_parallel"
    /\ probe.phase = "pool"
    /\ Cardinality(RunningTasks) < probe.num_gpus
    /\ QueuedTasks # {}
    /\ LET i == CHOOSE q \in QueuedTasks : \A o \in QueuedTasks : q <= o
       IN  probe' = [probe EXCEPT !.slots[i].state = "running"]
    /\ PipelineIdle

\* A worker returns from run_system_on_gpu, in any order among the workers.
RunnerWorkerFinish ==
    /\ probe.op = "run_parallel"
    /\ probe.phase = "pool"
    /\ \E i \in RunningTasks, outcome \in {"ok", "raise"} :
          probe' = [probe EXCEPT !.slots[i].state = "done",
                       !.slots[i].result = run_system_on_gpu(probe.pairs[i], outcome)]
    /\ PipelineIdle

\* results = [task.get() for task in tasks]
RunnerCollect ==
    /\ probe.op = "run_parallel"
    /\ probe.phase = "pool"
    /\ \A i \in DOMAIN probe.slots : probe.slots[i].state = "done"
    /\ probe' = [probe EXCEPT !.phase = "returned",
                    !.out = [i \in DOMAIN probe.slots |-> probe.slots[i].result]]
    /\ PipelineIdle

NextRunner ==
    \/ RunnerSequential
    \/ RunnerSubmit
    \/ RunnerWorkerTake
    \/ RunnerWorkerFinish
    \/ RunnerCollect

SpecRunner == InitRunner /\ [][NextRunner]_vars

\* C38: in run_parallel with more than one GPU no two system tasks running
\* at the same time have the same GPU id, for every number of systems and
\* every order of completion, and the list returned holds one result per
\* pair in input order.
C38_DistinctGpuPerRunningTask ==
    (probe.op = "run_parallel" /\ probe.num_gpus > 1) =>
        /\ \A i, j \in RunningTasks :
              probe.slots[i].gpu_id = probe.slots[j].gpu_id => i = j
        /\ probe.phase = "returned" =>
              /\ Len(probe.out) = Len(probe.pairs)
              /\ \A i \in DOMAIN probe.out :
                    probe.out[i] \in {None, PipelineResult(probe.pairs[i])}


\* ---------------------------------------------------------------------
\* MaterialPipeline and the database.  probe holds the run: how init_db
\* ended, the in-memory detailed_data, the calls made and whether an
\* exception left one of them; db holds the rows of the two tables, which
\* outlive a run.
MaxDbCalls == 3

\* init_db: DB_URL not set; create_engine / create_all raised; connected.
DbModes == {"unconfigured", "unreachable", "connected"}

\* The database operation of a call that raises, if any.
DbFailures == {"none", "query_system", "commit_system", "query_result", "commit_result"}

DbSystems == {<<"Fe", "Cr">>, <<"Cu", "Ni">>}
DbFormulas == {<<1, 1>>, <<1, 3>>}

\* DatabaseManager.get_session: a session when the factory exists, else None.
get_session(mode) == mode = "connected"

SystemRows(db, name) == {i \in DOMAIN db.systems : db.systems[i].name = name}

ResultRows(db, system_id, formula) ==
    {i \in DOMAIN db.results :
        db.results[i].system_id = system_id /\ db.results[i].formula = formula}

\* Faulty variant of the lookup: no existing row is ever found.
FindsNothing(db, system_id, formula) == {}

\* session.query(SimulationResult).filter_by(system_id=..., formula=...).first()
existing_res(db, system_id, formula) == ResultRows(db, system_id, formula)

\* Faulty variant of the guard: the exception leaves the method.
Propagates(failure) == failure # "none"

\* try: ... except Exception as e: print(...): no exception of the database
\* block leaves the method.
Escapes(failure) == FALSE

\* The database block of _add_detailed_data: get or create the System row,
\* then create the SimulationResult row unless one exists.  A failing
\* operation ends the block; what was committed before stays.
save_to_database(db, name, formula, failure) ==
    IF failure = "query_system" THEN db
    ELSE LET found == SystemRows(db, name)
             created == found = {}
             with_system ==
                 IF created /\ failure # "commit_system"
                 THEN [db EXCEPT !.systems =
                          Append(@, [id |-> Len(db.systems) + 1, name |-> name])]
                 ELSE db
         IN  IF (created /\ failure = "commit_system") \/ failure = "query_result"
             THEN with_system
             ELSE LET sys_q == with_system.systems[CHOOSE i \in SystemRows(with_system, name) : TRUE]
                  IN  IF existing_res(with_system, sys_q.id, formula) # {}
                         \/ failure = "commit_result"
                      THEN with_system
                      ELSE [with_system EXCEPT !.results =
                               Append(@, [system_id |-> sys_q.id, formula |-> formula,
                                          md_performed |-> FALSE])]

\* The database block of _analyze_md_result: the MD fields of the row of
\* (system, formula), when both rows are found.
update_database(db, name, formula, failure) ==
    IF failure \in {"query_system", "query_result", "commit_result"}
       \/ SystemRows(db, name) = {}
    THEN db
    ELSE LET sys_q == db.systems[CHOOSE i \in SystemRows(db, name) : TRUE]
             rows == ResultRows(db, sys_q.id, formula)
         IN  IF rows = {} THEN db
             ELSE LET first == CHOOSE i \in rows : \A o \in rows : i <= o
                  IN  [db EXCEPT !.results[first].md_performed = TRUE]

InitDatabase ==
    /\ cfg \in {c \in Configs({"library"}, "manual", MaxRatiosManual) :
                   c.supercell_size = 4 /\ c.step = 500 /\ ~c.parRatio /\ ~c.parMD}
    /\ element_pairs = << ManualSystem(cfg.variant) >>
    /\ fs \in Checkpoints(cfg, ManualSystem(cfg.variant))
    /\ InitCommon
    /\ \E mode \in DbModes :
          probe = [op |-> "database", mode |-> mode, rows |-> <<>>, log |-> <<>>,
                   raised |-> FALSE, calls |-> 0,
                   db |-> [systems |-> <<>>, results |-> <<>>]]

DbCall(call, name, formula, outcome, failure) ==
    [call |-> call, system |-> name, formula |-> formula, outcome |-> outcome,
     failure |-> failure]

\* _add_detailed_data: the record is appended, then the database block runs.
AddDetailedData ==
    /\ probe.op = "database"
    /\ ~probe.raised
    /\ probe.calls < MaxDbCalls
    /\ \E name \in DbSystems, formula \in DbFormulas, failure \in DbFailures :
          /\ get_session(probe.mode) \/ failure = "none"
          /\ probe' = [probe EXCEPT
                !.rows = Append(@, Record(SystemName(name), formula, TRUE)),
                !.log = Append(@, DbCall("add", name, formula, "ok", failure)),
                !.calls = @ + 1,
                !.raised = get_session(probe.mode) /\ Escapes(failure),
                !.db = IF get_session(probe.mode)
                       THEN save_to_database(@, name, formula, failure) ELSE @]
    /\ PipelineIdle

\* _analyze_md_result on the trajectory of a formula: with an analysis that
\* has no error, the first record of the formula gets its MD fields, and
\* inside that loop the database block runs for it.
AnalyzeMdResult ==
    /\ probe.op = "database"
    /\ ~probe.raised
    /\ probe.calls < MaxDbCalls
    /\ \E formula \in DbFormulas, outcome \in {"ok", "analysis_error"},
          failure \in DbFailures :
          LET hit == {i \in DOMAIN probe.rows : probe.rows[i].formula = formula}
              runs == outcome = "ok" /\ hit # {} /\ get_session(probe.mode)
              name == probe.rows[CHOOSE i \in hit : \A o \in hit : i <= o].system
          IN  /\ runs \/ failure = "none"
              /\ probe' = [probe EXCEPT
                    !.rows = analyze_md_result("library", @, formula, outcome),
                    !.log = Append(@, DbCall("md", <<>>, formula, outcome, failure)),
                    !.calls = @ + 1,
                    !.raised = runs /\ Escapes(failure),
                    !.db = IF runs THEN update_database(@, name, formula, failure)
                           ELSE @]
    /\ PipelineIdle

\* The program is run again on the same database: a new process, with
\* init_db ending in any of its ways.
RunAgain ==
    /\ probe.op = "database"
    /\ probe.calls > 0
    /\ probe.calls < MaxDbCalls
    /\ probe.rows # <<>>
    /\ \E mode \in DbModes :
          probe' = [probe EXCEPT !.mode = mode, !.rows = <<>>, !.log = <<>>,
                                 !.raised = FALSE]
    /\ PipelineIdle

NextDatabase ==
    \/ AddDetailedData
    \/ AnalyzeMdResult
    \/ RunAgain

SpecDatabase == InitDatabase /\ [][NextDatabase]_vars

\* C39: after any sequence of _add_detailed_data calls, a system run again
\* without resume included, the database holds at most one System row per
\* system name and at most one SimulationResult row per (system, formula).
C39_OneRowPerKey ==
    probe.op = "database" =>
        /\ \A i, j \in DOMAIN probe.db.systems :
              probe.db.systems[i].name = probe.db.systems[j].name => i = j
        /\ \A i, j \in DOMAIN probe.db.results :
              (/\ probe.db.results[i].system_id = probe.db.results[j].system_id
               /\ probe.db.results[i].formula = probe.db.results[j].formula) => i = j

\* A system saved by one run and added again by the next run: the second
\* call found the rows and the tables hold one of each.
C39_Witness ==
    /\ probe.op = "database"
    /\ probe.calls = 3
    /\ Len(probe.rows) = 2
    /\ probe.rows[1] = probe.rows[2]
    /\ \A i \in DOMAIN probe.log : probe.log[i].failure = "none"
    /\ probe.mode = "connected"
    /\ Len(probe.db.systems) = 1
    /\ Len(probe.db.results) = 1
    /\ probe.db.results[1].formula = probe.rows[1].formula

\* The in-memory records a list of calls leaves when no database exists.
RECURSIVE Replay(_, _, _)
Replay(log, i, rows) ==
    IF i > Len(log) THEN rows
    ELSE Replay(log, i + 1,
             IF log[i].call = "add"
             THEN Append(rows, Record(SystemName(log[i].system), log[i].formula, TRUE))
             ELSE IF log[i].outcome = "ok" /\ \E k \in DOMAIN rows : rows[k].formula = log[i].formula
             THEN LET k == CHOOSE k \in DOMAIN rows :
                              /\ rows[k].formula = log[i].formula
                              /\ \A o \in DOMAIN rows :
                                    rows[o].formula = log[i].formula => k <= o
                  IN  [rows EXCEPT ![k].md_performed = TRUE]
             ELSE rows)

\* C40: a database failure never changes the outcome of the pipeline:
\* whether the database is unconfigured, unreachable or raises during an
\* operation, every call returns, the record is appended in memory and the
\* MD fields are updated as without a database.
C40_DatabaseFailureIsHarmless ==
    probe.op = "database" =>
        /\ ~probe.raised
        /\ probe.rows = Replay(probe.log, 1, <<>>)

\* A connected database raised in the add and in the MD update of a
\* formula: the record is in memory with its MD fields and no row was saved.
C40_Witness ==
    /\ probe.op = "database"
    /\ probe.mode = "connected"
    /\ Len(probe.log) = 2
    /\ probe.log[1].call = "add"
    /\ probe.log[1].failure = "commit_result"
    /\ probe.log[2].call = "md"
    /\ probe.log[2].failure = "query_system"
    /\ probe.log[2].outcome = "ok"
    /\ Len(probe.rows) = 1
    /\ probe.rows[1].md_performed
    /\ probe.db.results = <<>>
    /\ ~probe.raised

====
